---- MODULE Spec2Model ----
(***************************************************************************)
(* fusion: a mountable filesystem whose client mirrors local mutations to  *)
(* a server over gRPC, and whose server fans change events back out to     *)
(* the observers registered under each user's root directory.              *)
(*                                                                         *)
(* Strings (paths, method names) are sequences of one-character strings,   *)
(* so that strings.Contains / strings.TrimPrefix / filepath.Join are       *)
(* computed character by character as the Go library computes them.        *)
(***************************************************************************)
EXTENDS Integers, Sequences, FiniteSets, TLC

(***************************************************************************)
(* strings and path/filepath                                               *)
(***************************************************************************)

\* strings.HasPrefix(s, prefix)
HasPrefix(s, prefix) ==
    /\ Len(prefix) <= Len(s)
    /\ SubSeq(s, 1, Len(prefix)) = prefix

\* strings.TrimPrefix(s, prefix)
TrimPrefix(s, prefix) ==
    IF HasPrefix(s, prefix) THEN SubSeq(s, Len(prefix) + 1, Len(s)) ELSE s

\* strings.Contains(s, substr)
Contains(s, substr) ==
    \E i \in 0..(Len(s) - Len(substr)) : SubSeq(s, i + 1, i + Len(substr)) = substr

\* strings.Split(s, "/"): the "/"-separated elements of s, empty ones included
RECURSIVE SplitFrom(_, _, _)
SplitFrom(s, i, cur) ==
    IF i > Len(s) THEN <<cur>>
    ELSE IF s[i] = "/" THEN <<cur>> \o SplitFrom(s, i + 1, <<>>)
    ELSE SplitFrom(s, i + 1, Append(cur, s[i]))

Split(s) == SplitFrom(s, 1, <<>>)

\* the elements joined with "/" between them
RECURSIVE JoinSegs(_)
JoinSegs(segs) ==
    IF Len(segs) = 0 THEN <<>>
    ELSE IF Len(segs) = 1 THEN segs[1]
    ELSE segs[1] \o <<"/">> \o JoinSegs(Tail(segs))

DropLast(segs) == SubSeq(segs, 1, Len(segs) - 1)

\* filepath.Clean's element pass: drop "" and ".", let ".." remove the element
\* before it; at the root ".." is dropped, in a relative path it is kept
RECURSIVE CleanSegs(_, _, _)
CleanSegs(segs, out, rooted) ==
    IF Len(segs) = 0 THEN out
    ELSE LET e == Head(segs)
             rest == Tail(segs)
         IN  IF e = <<>> \/ e = <<".">> THEN CleanSegs(rest, out, rooted)
             ELSE IF e = <<".", ".">>
                  THEN IF Len(out) > 0 /\ out[Len(out)] # <<".", ".">>
                       THEN CleanSegs(rest, DropLast(out), rooted)
                       ELSE IF rooted THEN CleanSegs(rest, out, rooted)
                       ELSE CleanSegs(rest, Append(out, e), rooted)
             ELSE CleanSegs(rest, Append(out, e), rooted)

\* filepath.Clean(path)
Clean(path) ==
    IF path = <<>> THEN <<".">>
    ELSE LET rooted == path[1] = "/"
             body == JoinSegs(CleanSegs(Split(path), <<>>, rooted))
         IN  IF rooted THEN <<"/">> \o body
             ELSE IF body = <<>> THEN <<".">> ELSE body

\* filepath.Join(elems...): empty elements are ignored, the rest are joined
\* with "/" and the result is Cleaned; all empty gives ""
RECURSIVE JoinRaw(_)
JoinRaw(elems) ==
    IF Len(elems) = 0 THEN <<>>
    ELSE IF Head(elems) = <<>> THEN JoinRaw(Tail(elems))
    ELSE LET rest == JoinRaw(Tail(elems))
         IN  IF rest = <<>> THEN Head(elems) ELSE Head(elems) \o <<"/">> \o rest

Join(elems) ==
    LET raw == JoinRaw(elems) IN IF raw = <<>> THEN <<>> ELSE Clean(raw)

\* trailing "/" removed
RECURSIVE StripSlashes(_)
StripSlashes(p) ==
    IF Len(p) > 0 /\ p[Len(p)] = "/" THEN StripSlashes(DropLast(p)) ELSE p

\* filepath.Base(path)
Base(path) ==
    IF path = <<>> THEN <<".">>
    ELSE LET p == StripSlashes(path)
         IN  IF p = <<>> THEN <<"/">>
             ELSE LET segs == Split(p) IN segs[Len(segs)]

\* filepath.Dir(path)
Dir(path) ==
    LET segs == Split(path)
    IN  Clean(SubSeq(path, 1, Len(path) - Len(segs[Len(segs)])))

(***************************************************************************)
(* configuration and the hosts' file systems                               *)
(***************************************************************************)

\* the server's -realpath and -mountpoint flags: the FUSE loopback shows the
\* tree stored under realpath at mountpoint
realpath == <<"/", "r">>
mountpoint == <<"/", "m">>

\* registered users (db.User): organisation and department names
Users ==
    { [OrgName |-> <<"a">>, DeptName |-> <<"b">>],
      [OrgName |-> <<"a">>, DeptName |-> <<"b", "0">>],
      [OrgName |-> <<"c">>, DeptName |-> <<"d">>] }

\* a user whose organisation directory was never created
Stranger == [OrgName |-> <<"e">>, DeptName |-> <<"f">>]

\* entry names the mount layer passes to the node operations
Names == { <<"x">>, <<"y">>, <<".", "t">> }

\* syscall.S_IFDIR, syscall.S_IFREG, syscall.S_IFLNK
S_IFDIR == 16384
S_IFREG == 32768
S_IFLNK == S_IFREG + 8192

\* An os.FileMode / uint32 mode word: bit 31 (os.ModeDir) and the bits below
\* it; the values the model builds have no other os.ModeType bit set
FileMode(dirBit, low) == [dir |-> dirBit, low |-> low]

\* errno values (0 is fs.OK)
OK == "OK"
ENOENT == "ENOENT"
EEXIST == "EEXIST"
ENOTDIR == "ENOTDIR"
EISDIR == "EISDIR"
ENOTEMPTY == "ENOTEMPTY"
EXDEV == "EXDEV"
EIO == "EIO"
EBADF == "EBADF"

\* A file system is a function from absolute paths to entries
\* [kind, ino, perm, data]; data is the byte content of a regular file.
IsDirAt(fsys, p) == p \in DOMAIN fsys /\ fsys[p].kind = "dir"

Descendants(fsys, p) == { q \in DOMAIN fsys : HasPrefix(q, p \o <<"/">>) }

Remove(fsys, ps) == [q \in DOMAIN fsys \ ps |-> fsys[q]]

\* the inode number the backing file system gives a new entry
NewIno(fsys) ==
    LET used == { fsys[q].ino : q \in DOMAIN fsys }
    IN  CHOOSE i \in 1..(Cardinality(used) + 1) : i \notin used

\* st_mode as Lstat reports it
StatMode(e) ==
    (CASE e.kind = "dir" -> S_IFDIR
       [] e.kind = "file" -> S_IFREG
       [] OTHER -> S_IFLNK) + e.perm

\* errno of resolving the parent directory of p
ParentErr(fsys, p) ==
    IF Dir(p) \notin DOMAIN fsys THEN ENOENT
    ELSE IF fsys[Dir(p)].kind # "dir" THEN ENOTDIR
    ELSE OK

\* mkdir(2)
SysMkdir(fsys, p, perm) ==
    IF p \in DOMAIN fsys THEN [fs |-> fsys, err |-> EEXIST]
    ELSE IF ParentErr(fsys, p) # OK THEN [fs |-> fsys, err |-> ParentErr(fsys, p)]
    ELSE [fs |-> fsys @@ (p :> [kind |-> "dir", ino |-> NewIno(fsys),
                                perm |-> perm, data |-> <<>>]),
          err |-> OK]

\* rmdir(2)
SysRmdir(fsys, p) ==
    IF p \notin DOMAIN fsys THEN [fs |-> fsys, err |-> ENOENT]
    ELSE IF fsys[p].kind # "dir" THEN [fs |-> fsys, err |-> ENOTDIR]
    ELSE IF Descendants(fsys, p) # {} THEN [fs |-> fsys, err |-> ENOTEMPTY]
    ELSE [fs |-> Remove(fsys, {p}), err |-> OK]

\* unlink(2)
SysUnlink(fsys, p) ==
    IF p \notin DOMAIN fsys THEN [fs |-> fsys, err |-> ENOENT]
    ELSE IF fsys[p].kind = "dir" THEN [fs |-> fsys, err |-> EISDIR]
    ELSE [fs |-> Remove(fsys, {p}), err |-> OK]

\* os.Remove: unlink, and rmdir when that fails
SysRemove(fsys, p) ==
    IF SysUnlink(fsys, p).err = OK THEN SysUnlink(fsys, p) ELSE SysRmdir(fsys, p)

\* rename(2): the entry and everything below it move to newp
SysRename(fsys, oldp, newp) ==
    IF oldp \notin DOMAIN fsys THEN [fs |-> fsys, err |-> ENOENT]
    ELSE IF ParentErr(fsys, newp) # OK THEN [fs |-> fsys, err |-> ParentErr(fsys, newp)]
    ELSE IF oldp = newp THEN [fs |-> fsys, err |-> OK]
    ELSE IF newp \in DOMAIN fsys /\ fsys[newp].ino = fsys[oldp].ino
         THEN [fs |-> fsys, err |-> OK]
    ELSE IF HasPrefix(newp, oldp \o <<"/">>) THEN [fs |-> fsys, err |-> "EINVAL"]
    ELSE IF newp \in DOMAIN fsys /\ fsys[oldp].kind = "dir" /\ fsys[newp].kind # "dir"
         THEN [fs |-> fsys, err |-> ENOTDIR]
    ELSE IF newp \in DOMAIN fsys /\ fsys[oldp].kind # "dir" /\ fsys[newp].kind = "dir"
         THEN [fs |-> fsys, err |-> EISDIR]
    ELSE IF newp \in DOMAIN fsys /\ Descendants(fsys, newp) # {}
         THEN [fs |-> fsys, err |-> ENOTEMPTY]
    ELSE LET moved == {oldp} \cup Descendants(fsys, oldp)
             kept == Remove(fsys, moved \cup {newp})
             dest == { newp \o TrimPrefix(q, oldp) : q \in moved }
         IN  [fs |-> [q \in DOMAIN kept \cup dest |->
                        IF q \in dest THEN fsys[oldp \o TrimPrefix(q, newp)]
                        ELSE kept[q]],
              err |-> OK]

\* open(2) with the flags the mount layer passes to Create (O_CREAT; O_EXCL and
\* O_TRUNC as given)
SysOpenCreate(fsys, p, excl, trunc, perm) ==
    IF p \in DOMAIN fsys
    THEN IF excl THEN [fs |-> fsys, err |-> EEXIST]
         ELSE IF fsys[p].kind = "dir" THEN [fs |-> fsys, err |-> EISDIR]
         ELSE IF trunc THEN [fs |-> [fsys EXCEPT ![p].data = <<>>], err |-> OK]
         ELSE [fs |-> fsys, err |-> OK]
    ELSE IF ParentErr(fsys, p) # OK THEN [fs |-> fsys, err |-> ParentErr(fsys, p)]
    ELSE [fs |-> fsys @@ (p :> [kind |-> "file", ino |-> NewIno(fsys),
                                perm |-> perm, data |-> <<>>]),
          err |-> OK]

\* symlink(2): the link's content is the target text
SysSymlink(fsys, target, linkp) ==
    IF linkp \in DOMAIN fsys THEN [fs |-> fsys, err |-> EEXIST]
    ELSE IF ParentErr(fsys, linkp) # OK THEN [fs |-> fsys, err |-> ParentErr(fsys, linkp)]
    ELSE [fs |-> fsys @@ (linkp :> [kind |-> "symlink", ino |-> NewIno(fsys),
                                    perm |-> 511, data |-> target]),
          err |-> OK]

\* link(2)
SysLink(fsys, oldp, newp) ==
    IF oldp \notin DOMAIN fsys THEN [fs |-> fsys, err |-> ENOENT]
    ELSE IF newp \in DOMAIN fsys THEN [fs |-> fsys, err |-> EEXIST]
    ELSE IF ParentErr(fsys, newp) # OK THEN [fs |-> fsys, err |-> ParentErr(fsys, newp)]
    ELSE IF fsys[oldp].kind = "dir" THEN [fs |-> fsys, err |-> "EPERM"]
    ELSE [fs |-> fsys @@ (newp :> fsys[oldp]), err |-> OK]

\* chmod(2)
SysChmod(fsys, p, perm) ==
    IF p \notin DOMAIN fsys THEN [fs |-> fsys, err |-> ENOENT]
    ELSE [fs |-> [fsys EXCEPT ![p].perm = perm], err |-> OK]

(***************************************************************************)
(* state                                                                   *)
(***************************************************************************)

VARIABLES
    srvFs,       \* the server host's file system (absolute path -> entry)
    lastOp,      \* the node operation or RPC that returned last
    notifying,   \* notifyObservers goroutines spawned and not yet run
    evHeap,      \* the *proto.FileEvent objects allocated so far
    broadcast,   \* the broadcast channel: event ids, oldest first
    observers,   \* the registry: root directory -> channels registered
    chans,       \* per observation stream, its clientChan buffer (event ids)
    streams,     \* per observation stream, the state of its handler
    mainObs,     \* the dispatcher goroutine startMainObserver
    delivering,  \* delivery goroutines blocked on `client <- fileEvent`
    srvCtxDone,  \* the context given to NewFuseServer was cancelled
    due,         \* <<event, channel>>: channels registered, when the event was
                 \* dequeued, at a root the event's path lies under
    placed,      \* <<event, channel>> pairs put on a subscriber channel
    rpc,         \* what the last RPC carried and what the server did with it
    userDb,      \* the users table (userModel)
    xfer,        \* the download in progress (client and server side)
    cliFs,       \* the client host's file system
    cli          \* client mount operations and their mirror goroutines

rpcVars == <<rpc, userDb>>
xferVars == <<xfer>>
cliVars == <<cliFs, cli>>

eventVars == <<lastOp, notifying, evHeap, broadcast, observers, chans, streams,
               mainObs, delivering, srvCtxDone, due, placed>>

busVars == <<srvFs, lastOp, notifying, evHeap, broadcast, observers,
             chans, streams, mainObs, delivering, srvCtxDone, due, placed>>

vars == <<srvFs, lastOp, notifying, evHeap, broadcast, observers,
          chans, streams, mainObs, delivering, srvCtxDone, due, placed,
          rpcVars, xferVars, cliVars>>

(***************************************************************************)
(* bounds                                                                  *)
(***************************************************************************)

\* node operations the mount layer issues in one run
MaxOps == 1
\* observation streams opened in one run
MaxStreams == 2
\* RPCs the server receives in one run
MaxCalls == 1
\* cells a read buffer of the server holds
CellsPerBlock == 2
\* cells of the longest file content
MaxCells == 3
\* operations the mount layer issues on the client in one run
MaxCliOps == 2
\* runs of the client's OnAdd hook in one run
MaxHooks == 1

\* capacity of the broadcast channel and of each clientChan
BroadcastCap == 100
ClientChanCap == 10

StreamIds == 1..MaxStreams

(***************************************************************************)
(* server: event bus (sync.go)                                             *)
(***************************************************************************)

\* relativePath of the server: strip realpath, then mountpoint
relativePath(path) == TrimPrefix(TrimPrefix(path, realpath), mountpoint)

\* the path of the host file system a syscall on p reaches: what lies under
\* the mountpoint is the loopback's view of realpath
HostPath(p) ==
    IF p = mountpoint \/ HasPrefix(p, mountpoint \o <<"/">>)
    THEN realpath \o TrimPrefix(p, mountpoint)
    ELSE p

\* path is root or lies below it: root is a path-segment prefix of path
UnderRoot(path, root) == path = root \/ HasPrefix(path, root \o <<"/">>)

\* getObservers' test of one registered root against an event path
ObserverMatches(path, observedPath) == Contains(path, observedPath)

\* concatenation of the registered channel lists of the given roots
RECURSIVE ConcatChans(_, _)
ConcatChans(reg, roots) ==
    IF roots = {} THEN <<>>
    ELSE LET r == CHOOSE r \in roots : TRUE
         IN  reg[r] \o ConcatChans(reg, roots \ {r})

\* getObservers matching a root only against a path equal to it
getObservers_exact(path) ==
    ConcatChans(observers, { r \in DOMAIN observers : path = r })

\* getObservers(path): the channels of every root the path matches
getObservers(path) ==
    ConcatChans(observers, { r \in DOMAIN observers : ObserverMatches(path, r) })

\* isTempFile(filename)
isTempFile(filename) == HasPrefix(filename, <<".">>)

\* notifyObservers testing the rename target only
NotifySkips_newpathOnly(path, newpath) == isTempFile(Base(newpath))

\* the test notifyObservers makes before it builds the event
NotifySkips(path, newpath) ==
    isTempFile(Base(path)) \/ isTempFile(Base(newpath))

\* go notifyObservers(event, path, newpath, mode)
Spawned(event, path, newpath, mode) ==
    [id |-> lastOp.seq + 1, event |-> event, path |-> path,
     newpath |-> newpath, mode |-> mode]

\* notifyObservers: one spawned goroutine runs to its end
notifyObservers(g) ==
    /\ g \in notifying
    /\ notifying' = notifying \ {g}
    /\ LET path == relativePath(g.path)
           newpath == relativePath(g.newpath)
       IN  IF NotifySkips(path, newpath)
           THEN UNCHANGED <<evHeap, broadcast>>
           ELSE /\ Len(broadcast) < BroadcastCap
                /\ evHeap' = Append(evHeap,
                       [Event |-> g.event, Path |-> path, NewPath |-> newpath,
                        Mode |-> g.mode, pubPath |-> path, pubNewPath |-> newpath,
                        op |-> g.id])
                /\ broadcast' = Append(broadcast, Len(evHeap) + 1)
    /\ UNCHANGED <<srvFs, lastOp, observers, chans, streams, mainObs,
                   delivering, srvCtxDone, due, placed, rpcVars, xferVars, cliVars>>

\* startMainObserver: `fileEvent := <-broadcast` and getObservers
MainObserverRecv ==
    /\ mainObs.pc = "recv"
    /\ broadcast # <<>>
    /\ LET ev == Head(broadcast)
           clients == getObservers(evHeap[ev].Path)
       IN  /\ broadcast' = Tail(broadcast)
           /\ due' = due \cup
                  { <<ev, c>> : c \in { c \in StreamIds :
                        \E r \in DOMAIN observers :
                            /\ UnderRoot(evHeap[ev].Path, r)
                            /\ \E i \in 1..Len(observers[r]) : observers[r][i] = c } }
           /\ mainObs' = IF Len(clients) = 0 THEN mainObs
                         ELSE [pc |-> "fanout", ev |-> ev, clients |-> clients]
    /\ UNCHANGED <<srvFs, lastOp, notifying, evHeap, observers, chans,
                   streams, delivering, srvCtxDone, placed, rpcVars, xferVars, cliVars>>

\* the fan-out as it would be with the send done by the dispatcher itself:
\* `client <- fileEvent` in the loop, blocking while the channel is full
MainObserverFanout_blocking ==
    /\ mainObs.pc = "fanout"
    /\ \/ /\ srvCtxDone
          /\ mainObs' = [pc |-> "exited", ev |-> 0, clients |-> <<>>]
          /\ UNCHANGED <<chans, placed>>
       \/ /\ Len(chans[Head(mainObs.clients)]) < ClientChanCap
          /\ chans' = [chans EXCEPT ![Head(mainObs.clients)] = Append(@, mainObs.ev)]
          /\ placed' = placed \cup { <<mainObs.ev, Head(mainObs.clients)>> }
          /\ mainObs' = IF Len(mainObs.clients) = 1
                        THEN [pc |-> "recv", ev |-> 0, clients |-> <<>>]
                        ELSE [mainObs EXCEPT !.clients = Tail(@)]
    /\ UNCHANGED <<srvFs, lastOp, notifying, evHeap, broadcast, observers,
                   delivering, streams, srvCtxDone, due, rpcVars, xferVars, cliVars>>

\* startMainObserver: one iteration of `for _, client := range clients`
MainObserverFanout ==
    /\ mainObs.pc = "fanout"
    /\ \/ /\ srvCtxDone
          /\ mainObs' = [pc |-> "exited", ev |-> 0, clients |-> <<>>]
          /\ UNCHANGED delivering
       \/ /\ delivering' = delivering \cup
                 { [ev |-> mainObs.ev, client |-> Head(mainObs.clients)] }
          /\ mainObs' = IF Len(mainObs.clients) = 1
                        THEN [pc |-> "recv", ev |-> 0, clients |-> <<>>]
                        ELSE [mainObs EXCEPT !.clients = Tail(@)]
    /\ UNCHANGED <<srvFs, lastOp, notifying, evHeap, broadcast, observers,
                   chans, streams, srvCtxDone, due, placed, rpcVars, xferVars, cliVars>>

\* the delivery goroutine: `client <- fileEvent`
Deliver(d) ==
    /\ d \in delivering
    /\ Len(chans[d.client]) < ClientChanCap
    /\ chans' = [chans EXCEPT ![d.client] = Append(@, d.ev)]
    /\ delivering' = delivering \ {d}
    /\ placed' = placed \cup { <<d.ev, d.client>> }
    /\ UNCHANGED <<srvFs, lastOp, notifying, evHeap, broadcast, observers,
                   streams, mainObs, srvCtxDone, due, rpcVars, xferVars, cliVars>>


(***************************************************************************)
(* server: authentication (auth.go)                                        *)
(***************************************************************************)

\* the key generateToken signs with and validToken verifies with
SECRET_KEY == "SECRET_KEY"

\* A json web token: the algorithm of its header, the key its signature was
\* made with, whether its exp claim has passed, whether its sub claim is a
\* string that base64-decodes to the JSON of a db.User, and that user.
generateToken(user) ==
    [alg |-> "HS256", key |-> SECRET_KEY, expired |-> FALSE, subOk |-> TRUE,
     sub |-> user]

NoUser == [OrgName |-> <<>>, DeptName |-> <<>>]

\* a string that is no json web token (the empty string, too)
EmptyToken ==
    [alg |-> "", key |-> "", expired |-> FALSE, subOk |-> FALSE, sub |-> NoUser]

\* the users whose tokens callers present
TokenUsers ==
    { [OrgName |-> <<"a">>, DeptName |-> <<"b", "0">>], Stranger }

\* tokens a caller may present: issued ones, and for each a forgery signed
\* with another key, an unsigned one (alg none), an expired one and one whose
\* subject does not decode
Tokens ==
    { generateToken(u) : u \in TokenUsers }
    \cup { [generateToken(Stranger) EXCEPT !.key = "guess"],
           [generateToken(Stranger) EXCEPT !.alg = "none", !.key = ""],
           [generateToken(Stranger) EXCEPT !.expired = TRUE],
           [generateToken(Stranger) EXCEPT !.subOk = FALSE],
           EmptyToken }

\* validToken accepting a token whatever key signed it
validToken_unsigned(tokenString) ==
    IF tokenString.alg # "HS256" \/ tokenString.expired \/ ~tokenString.subOk
    THEN [ok |-> FALSE, user |-> NoUser]
    ELSE [ok |-> TRUE, user |-> tokenString.sub]

\* validToken: jwt.Parse with the HMAC key function (signing method, signature
\* and exp are verified), then the sub claim is decoded into the user
validToken(tokenString) ==
    IF tokenString.alg # "HS256" \/ tokenString.key # SECRET_KEY
       \/ tokenString.expired
    THEN [ok |-> FALSE, user |-> NoUser]
    ELSE IF ~tokenString.subOk THEN [ok |-> FALSE, user |-> NoUser]
    ELSE [ok |-> TRUE, user |-> tokenString.sub]

\* Incoming metadata of a call: whether the context has any, whether it has
\* the key "authorization", and the values under that key
NoMetadata == [present |-> FALSE, hasKey |-> FALSE, tokens |-> <<>>]
Metadata(tokens) == [present |-> TRUE, hasKey |-> TRUE, tokens |-> tokens]

MDs ==
    { NoMetadata, [present |-> TRUE, hasKey |-> FALSE, tokens |-> <<>>],
      Metadata(<<>>) }
    \cup { Metadata(<<t>>) : t \in Tokens }

\* NewAuthenticatedCtx of the client: the token Auth returned for the user
NewAuthenticatedCtx(user) == Metadata(<<generateToken(user)>>)

\* the methods of service Fuse (proto.FuseServer)
Methods ==
    [ Auth |-> <<"A", "u", "t", "h">>,
      CreateOrg |-> <<"C", "r", "e", "a", "t", "e", "O", "r", "g">>,
      CreateUser |-> <<"C", "r", "e", "a", "t", "e", "U", "s", "e", "r">>,
      DownloadFile |-> <<"D", "o", "w", "n", "l", "o", "a", "d", "F", "i", "l", "e">>,
      ObserveFileChanges |-> <<"O", "b", "s", "e", "r", "v", "e", "F", "i", "l", "e", "C", "h", "a", "n", "g", "e", "s">>,
      Attr |-> <<"A", "t", "t", "r">>,
      Lookup |-> <<"L", "o", "o", "k", "u", "p">>,
      ReadDirAll |-> <<"R", "e", "a", "d", "D", "i", "r", "A", "l", "l">>,
      Mkdir |-> <<"M", "k", "d", "i", "r">>,
      Rmdir |-> <<"R", "m", "d", "i", "r">>,
      Getattr |-> <<"G", "e", "t", "a", "t", "t", "r">>,
      Create |-> <<"C", "r", "e", "a", "t", "e">>,
      Symlink |-> <<"S", "y", "m", "l", "i", "n", "k">>,
      Link |-> <<"L", "i", "n", "k">>,
      ReadAll |-> <<"R", "e", "a", "d", "A", "l", "l">>,
      Write |-> <<"W", "r", "i", "t", "e">>,
      Rename |-> <<"R", "e", "n", "a", "m", "e">> ]

ServiceName == <<"p", "r", "o", "t", "o", ".", "F", "u", "s", "e">>

\* info.FullMethod of a call
FullMethod(method) == <<"/">> \o ServiceName \o <<"/">> \o method

nonProtectedMethods == << Methods.Auth, Methods.CreateOrg, Methods.CreateUser >>

\* what an interceptor hands to the handler: the context, with or without a
\* user value; pass is FALSE when the interceptor answered the call itself
NoCtx == [pass |-> TRUE, hasUser |-> FALSE, user |-> NoUser]
UserCtx(user) == [pass |-> TRUE, hasUser |-> TRUE, user |-> user]
Refused == [pass |-> FALSE, hasUser |-> FALSE, user |-> NoUser]

\* AuthInterceptor (unary calls)
AuthInterceptor(fullMethod, md) ==
    IF \E i \in 1..Len(nonProtectedMethods) :
           Contains(fullMethod, nonProtectedMethods[i])
    THEN NoCtx
    ELSE IF ~md.present THEN Refused
    ELSE IF ~md.hasKey \/ Len(md.tokens) = 0 THEN Refused
    ELSE IF ~validToken(md.tokens[1]).ok THEN Refused
    ELSE UserCtx(validToken(md.tokens[1]).user)

\* AuthStreamInterceptor (streaming calls)
AuthStreamInterceptor(md) ==
    IF ~md.present THEN Refused
    ELSE IF ~md.hasKey \/ Len(md.tokens) = 0 THEN Refused
    ELSE IF ~validToken(md.tokens[1]).ok THEN Refused
    ELSE UserCtx(validToken(md.tokens[1]).user)

\* a mapping without the cases of os.IsExist and os.IsTimeout
grpcError_coarse(err) ==
    CASE err = OK -> "OK"
      [] err = ENOENT -> "NotFound"
      [] err \in {"EACCES", "EPERM"} -> "PermissionDenied"
      [] err = "ENOSPC" -> "ResourceExhausted"
      [] err = "EINVAL" -> "InvalidArgument"
      [] OTHER -> "Internal"

\* grpcError: the status code for an error of the backing store
grpcError(err) ==
    CASE err = OK -> "OK"
      [] err = ENOENT -> "NotFound"
      [] err \in {"EACCES", "EPERM"} -> "PermissionDenied"
      [] err \in {"EAGAIN", "ETIMEDOUT"} -> "DeadlineExceeded"
      [] err \in {EEXIST, ENOTEMPTY} -> "AlreadyExists"
      [] err = EIO -> "Internal"
      [] err = "ENOSPC" -> "ResourceExhausted"
      [] err = "EINVAL" -> "InvalidArgument"
      [] OTHER -> "Internal"

(***************************************************************************)
(* server: ObserveFileChanges (grpc.go)                                    *)
(***************************************************************************)

\* the entry a path names once a symbolic link in its last place is followed
\* (a relative target is resolved in the link's directory: p/../target)
Follow(fsys, p) ==
    IF p \in DOMAIN fsys /\ fsys[p].kind = "symlink" /\ Len(fsys[p].data) > 0
    THEN HostPath(Clean(IF fsys[p].data[1] = "/" THEN fsys[p].data
                        ELSE p \o <<"/", ".", ".", "/">> \o fsys[p].data))
    ELSE p

\* stat(2) and lstat(2)
SysLstat(fsys, p) ==
    IF p \in DOMAIN fsys THEN OK
    ELSE CHOOSE e \in {IF d \in DOMAIN fsys /\ fsys[d].kind # "dir"
                       THEN ENOTDIR ELSE ENOENT : d \in {Dir(p)}} : TRUE

SysStat(fsys, p) ==
    CHOOSE e \in {SysLstat(fsys, q) : q \in {Follow(fsys, p)}} : TRUE

\* a resolver that falls back to the mountpoint when the directory is missing
getUsersDir_fallback(fsys, ctx) ==
    IF ~ctx.hasUser THEN [dir |-> <<>>, err |-> "user not logged in"]
    ELSE CHOOSE ud \in UNION {
             {IF err = OK THEN [dir |-> relativePath(fullpath), err |-> OK]
              ELSE [dir |-> <<>>, err |-> OK] :
                 err \in {SysStat(fsys, HostPath(fullpath))}} :
             fullpath \in {Join(<<mountpoint, ctx.user.OrgName,
                                  ctx.user.DeptName>>)}} : TRUE

\* getUsersDir: the root of the user the context carries, or the error of
\* syscall.Stat(fullpath)
getUsersDir(fsys, ctx) ==
    IF ~ctx.hasUser THEN [dir |-> <<>>, err |-> "user not logged in"]
    ELSE CHOOSE ud \in UNION {
             {IF err = OK THEN [dir |-> relativePath(fullpath), err |-> OK]
              ELSE [dir |-> <<>>, err |-> err] :
                 err \in {SysStat(fsys, HostPath(fullpath))}} :
             fullpath \in {Join(<<mountpoint, ctx.user.OrgName,
                                  ctx.user.DeptName>>)}} : TRUE

IdleStream == [pc |-> "idle", root |-> <<>>, ctxDone |-> FALSE, cur |-> 0,
               sent |-> <<>>, status |-> "none"]

\* ObserveFileChanges up to its loop: resolve the root, make the channel and
\* append it to the registry entry of the root
ObserveRegister(c, ctx) ==
    LET ud == getUsersDir(srvFs, ctx)
    IN  IF ud.err # OK
        THEN /\ streams' = [streams EXCEPT ![c].pc = "returned",
                                           ![c].status = grpcError(ud.err)]
             /\ UNCHANGED observers
        ELSE /\ streams' = [streams EXCEPT ![c].pc = "loop", ![c].root = ud.dir]
             /\ observers' =
                    IF ud.dir \in DOMAIN observers
                    THEN [observers EXCEPT ![ud.dir] = Append(@, c)]
                    ELSE observers @@ (ud.dir :> <<c>>)

\* the handler entered by a user the stream interceptor has authenticated
ObserveOpen(c, user) ==
    /\ streams[c].pc = "idle"
    /\ \A b \in StreamIds : b < c => streams[b].pc # "idle"
    /\ ObserveRegister(c, UserCtx(user))
    /\ UNCHANGED <<srvFs, lastOp, notifying, evHeap, broadcast, chans,
                   mainObs, delivering, srvCtxDone, due, placed, rpcVars, xferVars, cliVars>>

\* the loop's `case fileEvent := <-clientChan`, up to the first assignment:
\* fileEvent.Path = strings.TrimPrefix(fileEvent.Path, usersDir)
ObserveRecv(c) ==
    /\ streams[c].pc = "loop"
    /\ chans[c] # <<>>
    /\ LET ev == Head(chans[c])
       IN  /\ chans' = [chans EXCEPT ![c] = Tail(@)]
           /\ evHeap' = [evHeap EXCEPT ![ev].Path = TrimPrefix(@, streams[c].root)]
           /\ streams' = [streams EXCEPT ![c].pc = "trimmed", ![c].cur = ev]
    /\ UNCHANGED <<srvFs, lastOp, notifying, broadcast, observers, mainObs,
                   delivering, srvCtxDone, due, placed, rpcVars, xferVars, cliVars>>

\* the rest of the case: trim NewPath and stream.Send(fileEvent); a Send on a
\* cancelled stream fails and the handler returns the error
ObserveSend(c) ==
    /\ streams[c].pc = "trimmed"
    /\ LET ev == streams[c].cur
           newPath == TrimPrefix(evHeap[ev].NewPath, streams[c].root)
       IN  /\ evHeap' = [evHeap EXCEPT ![ev].NewPath = newPath]
           /\ IF streams[c].ctxDone
              THEN streams' = [streams EXCEPT ![c].pc = "returned", ![c].cur = 0,
                                              ![c].status = "Internal"]
              ELSE streams' = [streams EXCEPT
                       ![c].pc = "loop", ![c].cur = 0,
                       ![c].sent = Append(@, [id |-> ev,
                                              Event |-> evHeap[ev].Event,
                                              Path |-> evHeap[ev].Path,
                                              NewPath |-> newPath,
                                              Mode |-> evHeap[ev].Mode])]
    /\ UNCHANGED <<srvFs, lastOp, notifying, broadcast, observers, chans,
                   mainObs, delivering, srvCtxDone, due, placed, rpcVars, xferVars, cliVars>>

\* the loop's `case <-ctx.Done()`: return nil
ObserveDone(c) ==
    /\ streams[c].pc = "loop"
    /\ streams[c].ctxDone
    /\ streams' = [streams EXCEPT ![c].pc = "returned", ![c].status = "OK"]
    /\ UNCHANGED <<srvFs, lastOp, notifying, evHeap, broadcast, observers,
                   chans, mainObs, delivering, srvCtxDone, due, placed, rpcVars, xferVars, cliVars>>

\* the client closes the stream: its context is cancelled
CancelStream(c) ==
    /\ streams[c].pc \in {"loop", "trimmed"}
    /\ ~streams[c].ctxDone
    /\ streams' = [streams EXCEPT ![c].ctxDone = TRUE]
    /\ UNCHANGED <<srvFs, lastOp, notifying, evHeap, broadcast, observers,
                   chans, mainObs, delivering, srvCtxDone, due, placed, rpcVars, xferVars, cliVars>>

\* start_gRPCServer returns: its deferred cancel() ends the dispatcher's context
CancelServer ==
    /\ ~srvCtxDone
    /\ srvCtxDone' = TRUE
    /\ UNCHANGED <<srvFs, lastOp, notifying, evHeap, broadcast, observers,
                   chans, streams, mainObs, delivering, due, placed, rpcVars, xferVars, cliVars>>

(***************************************************************************)
(* server: filesystem node (filesystem.go)                                 *)
(* Each operator gives the file system after the call, the errno returned  *)
(* and the notifyObservers goroutines the call spawns.  Lstat of an entry  *)
(* the call has just made succeeds.                                        *)
(***************************************************************************)

NoNotify == {}
Notify(event, path, newpath, mode) ==
    { [event |-> event, path |-> path, newpath |-> newpath, mode |-> mode] }

\* Node.Mkdir
NodeMkdir(fsys, n, name, mode) ==
    LET fullpath == Join(<<n, name>>)
        r == SysMkdir(fsys, fullpath, mode)
    IN  IF r.err # OK THEN [fs |-> fsys, err |-> r.err, notify |-> NoNotify]
        ELSE [fs |-> r.fs, err |-> OK,
              notify |-> Notify("ADD_FILE", fullpath, <<>>, FileMode(TRUE, mode))]

\* Node.Rmdir
NodeRmdir(fsys, n, name) ==
    LET fullpath == Join(<<n, name>>)
        r == SysRmdir(fsys, fullpath)
    IN  IF r.err # OK THEN [fs |-> fsys, err |-> r.err, notify |-> NoNotify]
        ELSE [fs |-> r.fs, err |-> OK,
              notify |-> Notify("DELETE_FILE", fullpath, <<>>, FileMode(FALSE, 0))]

\* Node.Unlink
NodeUnlink(fsys, n, name) ==
    LET fullpath == Join(<<n, name>>)
        r == SysUnlink(fsys, fullpath)
    IN  [fs |-> r.fs, err |-> r.err, notify |-> NoNotify]

\* Node.Rename publishing its event whether os.Rename succeeded or not
NodeRename_always(fsys, n, oldName, newNode, newName) ==
    LET oldpath == Join(<<n, oldName>>)
        newpath == Join(<<newNode, newName>>)
        r == SysRename(fsys, oldpath, newpath)
    IN  [fs |-> r.fs, err |-> r.err,
         notify |-> Notify("RENAME_FILE", oldpath, relativePath(newpath),
                          FileMode(FALSE, 0))]

\* Node.Rename
NodeRename(fsys, n, oldName, newNode, newName) ==
    LET oldpath == Join(<<n, oldName>>)
        newpath == Join(<<newNode, newName>>)
        r == SysRename(fsys, oldpath, newpath)
    IN  IF r.err # OK THEN [fs |-> fsys, err |-> r.err, notify |-> NoNotify]
        ELSE [fs |-> r.fs, err |-> OK,
              notify |-> Notify("RENAME_FILE", oldpath, relativePath(newpath),
                               FileMode(FALSE, 0))]

\* Node.Create
NodeCreate(fsys, n, name, excl, trunc) ==
    LET fullpath == Join(<<n, name>>)
        r == SysOpenCreate(fsys, fullpath, excl, trunc, 493)
    IN  IF r.err # OK THEN [fs |-> fsys, err |-> r.err, notify |-> NoNotify]
        ELSE [fs |-> r.fs, err |-> OK,
              notify |-> Notify("ADD_FILE", fullpath, <<>>,
                               FileMode(FALSE, StatMode(r.fs[fullpath])))]

\* Node.Symlink: the link is made at relativePath(fullpath), then fullpath is
\* Lstat'ed and unlinked when the Lstat fails
NodeSymlink(fsys, n, target, name) ==
    LET fullpath == Join(<<n, name>>)
        r == SysSymlink(fsys, target, relativePath(fullpath))
    IN  IF r.err # OK THEN [fs |-> fsys, err |-> r.err, notify |-> NoNotify]
        ELSE IF fullpath \notin DOMAIN r.fs
             THEN [fs |-> r.fs, err |-> ENOENT, notify |-> NoNotify]
        ELSE [fs |-> r.fs, err |-> OK, notify |-> NoNotify]

\* Node.Link: oldpath joins the parent's path with the target's whole path
NodeLink(fsys, n, targetPath, name) ==
    LET oldpath == Join(<<n, targetPath>>)
        newpath == Join(<<n, name>>)
        r == SysLink(fsys, oldpath, newpath)
    IN  [fs |-> r.fs, err |-> r.err, notify |-> NoNotify]

\* Node.Setattr with only the mode present in the request
NodeSetattr(fsys, path, perm) ==
    LET r == SysChmod(fsys, path, perm)
    IN  [fs |-> r.fs, err |-> r.err, notify |-> NoNotify]

\* directories the mount layer holds nodes for and issues operations on: the
\* root of the department whose name extends another department's name
NodeDirs == { Join(<<realpath, <<"a">>, <<"b", "0">> >>) }

\* the call returns: the store is as the call left it, the goroutines it
\* spawned are runnable
NodeReturn(op, r, path, newpath) ==
    /\ srvFs' = r.fs
    /\ lastOp' = [seq |-> lastOp.seq + 1, op |-> op, path |-> path,
                  newpath |-> newpath, err |-> r.err]
    /\ notifying' = notifying \cup
           { [id |-> lastOp.seq + 1, event |-> g.event, path |-> g.path,
              newpath |-> g.newpath, mode |-> g.mode] : g \in r.notify }
    /\ UNCHANGED <<evHeap, broadcast, observers, chans, streams, mainObs,
                   delivering, srvCtxDone, due, placed, rpcVars, xferVars, cliVars>>

\* The mount layer resolves a name before it calls an operation on it: it
\* creates only names that do not exist, and removes, renames and links only
\* entries that do.
Missing(n, name) == Join(<<n, name>>) \notin DOMAIN srvFs
Present(n, name) == Join(<<n, name>>) \in DOMAIN srvFs

Mkdir ==
    /\ lastOp.seq < MaxOps
    /\ \E n \in NodeDirs, name \in Names :
        /\ Missing(n, name)
        /\ NodeReturn("Mkdir", NodeMkdir(srvFs, n, name, 493), Join(<<n, name>>), <<>>)

Rmdir ==
    /\ lastOp.seq < MaxOps
    /\ \E n \in NodeDirs, name \in Names :
        /\ Present(n, name) /\ srvFs[Join(<<n, name>>)].kind = "dir"
        /\ NodeReturn("Rmdir", NodeRmdir(srvFs, n, name), Join(<<n, name>>), <<>>)

Unlink ==
    /\ lastOp.seq < MaxOps
    /\ \E n \in NodeDirs, name \in Names :
        /\ Present(n, name) /\ srvFs[Join(<<n, name>>)].kind # "dir"
        /\ NodeReturn("Unlink", NodeUnlink(srvFs, n, name), Join(<<n, name>>), <<>>)

Rename ==
    /\ lastOp.seq < MaxOps
    /\ \E n \in NodeDirs, oldName \in Names, newNode \in NodeDirs, newName \in Names :
        /\ Present(n, oldName)
        /\ <<n, oldName>> # <<newNode, newName>>
        /\ NodeReturn("Rename", NodeRename(srvFs, n, oldName, newNode, newName),
                      Join(<<n, oldName>>), Join(<<newNode, newName>>))

Create ==
    /\ lastOp.seq < MaxOps
    /\ \E n \in NodeDirs, name \in Names, excl \in BOOLEAN, trunc \in BOOLEAN :
        /\ Missing(n, name)
        /\ NodeReturn("Create", NodeCreate(srvFs, n, name, excl, trunc),
                      Join(<<n, name>>), <<>>)

Symlink ==
    /\ lastOp.seq < MaxOps
    /\ \E n \in NodeDirs, target \in Names, name \in Names :
        /\ Missing(n, name)
        /\ NodeReturn("Symlink", NodeSymlink(srvFs, n, target, name),
                      Join(<<n, name>>), <<>>)

Link ==
    /\ lastOp.seq < MaxOps
    /\ \E n \in NodeDirs, name \in Names :
        \E target \in { q \in DOMAIN srvFs : Dir(q) \in NodeDirs /\ srvFs[q].kind = "file" } :
            /\ Missing(n, name)
            /\ NodeReturn("Link", NodeLink(srvFs, n, target, name),
                          Join(<<n, name>>), <<>>)

Setattr ==
    /\ lastOp.seq < MaxOps
    /\ \E path \in { q \in DOMAIN srvFs : Dir(q) \in NodeDirs } :
        NodeReturn("Setattr", NodeSetattr(srvFs, path, 384), path, <<>>)

(***************************************************************************)
(* server: gRPC handlers (grpc.go)                                         *)
(***************************************************************************)

\* os.MkdirAll
RECURSIVE SysMkdirAll(_, _, _)
SysMkdirAll(fsys, p, perm) ==
    IF p \in DOMAIN fsys
    THEN [fs |-> fsys, err |-> IF fsys[p].kind = "dir" THEN OK ELSE ENOTDIR]
    ELSE IF Dir(p) = p THEN [fs |-> fsys, err |-> ENOENT]
    ELSE LET r == SysMkdirAll(fsys, Dir(p), perm)
         IN  IF r.err # OK THEN r ELSE SysMkdir(r.fs, p, perm)

\* open(2) without O_CREAT, for reading or for writing
SysOpen(fsys, p, writing) ==
    LET q == Follow(fsys, p)
    IN  IF SysLstat(fsys, q) # OK THEN SysLstat(fsys, q)
        ELSE IF fsys[q].kind = "dir" /\ writing THEN EISDIR
        ELSE IF fsys[q].kind = "symlink" THEN "ELOOP"
        ELSE OK

\* the content of a file after pwrite(2) of data at offset off
WriteAt(old, data, off) ==
    IF Len(data) = 0 THEN old
    ELSE [i \in 1..(IF Len(old) > off + Len(data) THEN Len(old)
                    ELSE off + Len(data)) |->
            IF i > off /\ i <= off + Len(data) THEN data[i - off]
            ELSE IF i <= Len(old) THEN old[i]
            ELSE 0]

\* what a handler leaves behind: the store, the users table, the status of
\* the call, the paths it passed to the file system, the token it returned
Result(fsys, db, code, touched, token) ==
    [fs |-> fsys, db |-> db, code |-> code, touched |-> touched, token |-> token]

Done(fsys, db, err, touched) == Result(fsys, db, grpcError(err), touched, EmptyToken)

\* filepath.Join(s.path, usersDir, req.Path)
FullPath(usersDir, path) == Join(<<mountpoint, usersDir, path>>)

\* strings.TrimSpace(value) == ""
isEmpty(value) == \A i \in 1..Len(value) : value[i] = " "

\* FuseServer.Auth; req.pwOk: verifyPassword accepts the password
FuseServerAuth(fsys, db, ctx, req) ==
    IF req.user \in db /\ req.pwOk
    THEN Result(fsys, db, "OK", {}, generateToken(req.user))
    ELSE Result(fsys, db, "Unauthenticated", {}, EmptyToken)

\* FuseServer.CreateOrg
FuseServerCreateOrg(fsys, db, ctx, req) ==
    LET baseDir == Join(<<mountpoint, req.user.OrgName>>)
        deptDir == Join(<<baseDir, req.user.DeptName>>)
        r1 == SysMkdirAll(fsys, HostPath(baseDir), 489)
        r2 == SysMkdirAll(r1.fs, HostPath(deptDir), 505)
    IN  IF isEmpty(req.user.OrgName)
        THEN Result(fsys, db, "InvalidArgument", {}, EmptyToken)
        ELSE IF r1.err # OK THEN Done(r1.fs, db, r1.err, {baseDir})
        ELSE IF isEmpty(req.user.DeptName) THEN Done(r1.fs, db, OK, {baseDir})
        ELSE Done(r2.fs, db, r2.err, {baseDir, deptDir})

\* FuseServer.CreateUser; req.pwOk: db.NewUser accepts the fields
FuseServerCreateUser(fsys, db, ctx, req) ==
    LET baseDir == Join(<<mountpoint, req.user.OrgName, req.user.DeptName>>)
    IN  IF ~IsDirAt(fsys, Follow(fsys, HostPath(baseDir)))
        THEN Result(fsys, db, "NotFound", {baseDir}, EmptyToken)
        ELSE IF ~req.pwOk
        THEN Result(fsys, db, "InvalidArgument", {baseDir}, EmptyToken)
        ELSE Result(fsys, db \cup {req.user}, "OK", {baseDir}, EmptyToken)

\* FuseServer.Attr and FuseServer.Getattr
FuseServerGetattr(fsys, db, ctx, req) ==
    LET ud == getUsersDir(fsys, ctx)
        fullpath == FullPath(ud.dir, req.Path)
    IN  IF ud.err # OK THEN Done(fsys, db, ud.err, {})
        ELSE Done(fsys, db, SysLstat(fsys, HostPath(fullpath)), {fullpath})

\* FuseServer.Lookup
FuseServerLookup(fsys, db, ctx, req) ==
    LET ud == getUsersDir(fsys, ctx)
        fullpath == FullPath(ud.dir, req.Path)
    IN  IF ud.err # OK THEN Done(fsys, db, ud.err, {})
        ELSE Done(fsys, db, SysStat(fsys, HostPath(fullpath)), {fullpath})

\* FuseServer.ReadDirAll
FuseServerReadDirAll(fsys, db, ctx, req) ==
    LET ud == getUsersDir(fsys, ctx)
        fullpath == FullPath(ud.dir, req.Path)
        q == Follow(fsys, HostPath(fullpath))
    IN  IF ud.err # OK THEN Done(fsys, db, ud.err, {})
        ELSE IF SysLstat(fsys, q) # OK THEN Done(fsys, db, SysLstat(fsys, q), {fullpath})
        ELSE IF fsys[q].kind # "dir" THEN Done(fsys, db, ENOTDIR, {fullpath})
        ELSE Done(fsys, db, OK, {fullpath})

\* the Entries of FuseServer.ReadDirAll's response: one DirEntry per file of
\* the directory, its Path joined from req.Path and the file's name; of its
\* Mode the client tests IsDir and IsRegular
ReadDirAllEntries(fsys, ctx, req) ==
    LET ud == getUsersDir(fsys, ctx)
        fullpath == FullPath(ud.dir, req.Path)
        q == Follow(fsys, HostPath(fullpath))
    IN  { [Path |-> Join(<<req.Path, Base(f)>>),
           IsDir |-> fsys[f].kind = "dir",
           IsRegular |-> fsys[f].kind = "file"] :
          f \in { f \in DOMAIN fsys : f # q /\ Dir(f) = q } }

\* FuseServer.ReadAll
FuseServerReadAll(fsys, db, ctx, req) ==
    LET ud == getUsersDir(fsys, ctx)
        fullpath == FullPath(ud.dir, req.Path)
        q == Follow(fsys, HostPath(fullpath))
    IN  IF ud.err # OK THEN Done(fsys, db, ud.err, {})
        ELSE IF SysOpen(fsys, q, FALSE) # OK
        THEN Done(fsys, db, SysOpen(fsys, q, FALSE), {fullpath})
        ELSE IF fsys[q].kind = "dir" THEN Done(fsys, db, EISDIR, {fullpath})
        ELSE Done(fsys, db, OK, {fullpath})

\* FuseServer.Mkdir
FuseServerMkdir(fsys, db, ctx, req) ==
    LET ud == getUsersDir(fsys, ctx)
        fullpath == FullPath(ud.dir, req.Path)
        r == SysMkdir(fsys, HostPath(fullpath), req.Mode)
    IN  IF ud.err # OK THEN Done(fsys, db, ud.err, {})
        ELSE Done(r.fs, db, r.err, {fullpath})

\* FuseServer.Rmdir
FuseServerRmdir(fsys, db, ctx, req) ==
    LET ud == getUsersDir(fsys, ctx)
        fullpath == FullPath(ud.dir, req.Path)
        r == SysRemove(fsys, HostPath(fullpath))
    IN  IF ud.err # OK THEN Done(fsys, db, ud.err, {})
        ELSE Done(r.fs, db, r.err, {fullpath})

\* FuseServer.Create; req.Flags: whether O_CREAT, O_EXCL, O_TRUNC are set
FuseServerCreate(fsys, db, ctx, req) ==
    LET ud == getUsersDir(fsys, ctx)
        fullpath == FullPath(ud.dir, req.Path)
        q == Follow(fsys, HostPath(fullpath))
        r == IF req.Flags.creat
             THEN SysOpenCreate(fsys, q, req.Flags.excl, req.Flags.trunc, req.Mode)
             ELSE [fs |-> fsys, err |-> SysOpen(fsys, q, FALSE)]
    IN  IF ud.err # OK THEN Done(fsys, db, ud.err, {})
        ELSE Done(r.fs, db, r.err, {fullpath})

\* FuseServer.Symlink
FuseServerSymlink(fsys, db, ctx, req) ==
    LET ud == getUsersDir(fsys, ctx)
        oldpath == FullPath(ud.dir, req.Path)
        newpath == FullPath(ud.dir, req.NewPath)
        r == SysSymlink(fsys, oldpath, HostPath(newpath))
    IN  IF ud.err # OK THEN Done(fsys, db, ud.err, {})
        ELSE Done(r.fs, db, r.err, {newpath})

\* FuseServer.Link
FuseServerLink(fsys, db, ctx, req) ==
    LET ud == getUsersDir(fsys, ctx)
        oldpath == FullPath(ud.dir, req.Path)
        newpath == FullPath(ud.dir, req.NewPath)
        r == SysLink(fsys, HostPath(oldpath), HostPath(newpath))
    IN  IF ud.err # OK THEN Done(fsys, db, ud.err, {})
        ELSE Done(r.fs, db, r.err, {oldpath, newpath})

\* FuseServer.Write
FuseServerWrite(fsys, db, ctx, req) ==
    LET ud == getUsersDir(fsys, ctx)
        fullpath == FullPath(ud.dir, req.Path)
        q == Follow(fsys, HostPath(fullpath))
    IN  IF ud.err # OK THEN Done(fsys, db, ud.err, {})
        ELSE IF SysOpen(fsys, q, TRUE) # OK
        THEN Done(fsys, db, SysOpen(fsys, q, TRUE), {fullpath})
        ELSE Done([fsys EXCEPT ![q].data = WriteAt(@, req.Data, req.Offset)],
                  db, OK, {fullpath})

\* FuseServer.Rename
FuseServerRename(fsys, db, ctx, req) ==
    LET ud == getUsersDir(fsys, ctx)
        oldpath == FullPath(ud.dir, req.Path)
        newpath == FullPath(ud.dir, req.NewPath)
        newParentDir == Dir(newpath)
        m == IF SysStat(fsys, HostPath(newParentDir)) = ENOENT
             THEN SysMkdirAll(fsys, HostPath(newParentDir), 493)
             ELSE [fs |-> fsys, err |-> OK]
        r == SysRename(m.fs, HostPath(oldpath), HostPath(newpath))
    IN  IF ud.err # OK THEN Done(fsys, db, ud.err, {})
        ELSE IF m.err # OK THEN Done(m.fs, db, m.err, {newParentDir})
        ELSE Done(r.fs, db, r.err, {oldpath, newpath, newParentDir})

\* crypto/md5 and hex.EncodeToString of a content: the digests of two
\* contents are equal exactly when the contents are
Md5Hex(data) == <<"md5", data>>

\* the size of the server's read buffer in bytes
BlockSize == 64 * 1024

\* A file's content is a sequence of cells, each standing for CellBytes bytes
\* of one value; a read buffer holds CellsPerBlock cells
CellBytes == BlockSize \div CellsPerBlock

\* DownloadFile streaming the file whatever digest the request carries
DownloadOpen_resend(fsys, ctx, req) ==
    LET ud == getUsersDir(fsys, ctx)
        fullpath == FullPath(ud.dir, req.Path)
        q == Follow(fsys, HostPath(fullpath))
        failed(e, t) == [err |-> e, touched |-> t, file |-> q, match |-> FALSE,
                         size |-> 0]
    IN  IF ud.err # OK THEN failed(ud.err, {})
        ELSE IF SysOpen(fsys, q, FALSE) # OK
        THEN failed(SysOpen(fsys, q, FALSE), {fullpath})
        ELSE IF fsys[q].kind = "dir" THEN failed(EISDIR, {fullpath})
        ELSE [err |-> OK, touched |-> {fullpath}, file |-> q,
              match |-> FALSE,
              size |-> Len(fsys[q].data) * CellBytes]

\* FuseServer.DownloadFile up to its loop: the root, os.Open, the digest
\* compared with req.ExpectedHash, Seek and Stat
DownloadOpen(fsys, ctx, req) ==
    LET ud == getUsersDir(fsys, ctx)
        fullpath == FullPath(ud.dir, req.Path)
        q == Follow(fsys, HostPath(fullpath))
        failed(e, t) == [err |-> e, touched |-> t, file |-> q, match |-> FALSE,
                         size |-> 0]
    IN  IF ud.err # OK THEN failed(ud.err, {})
        ELSE IF SysOpen(fsys, q, FALSE) # OK
        THEN failed(SysOpen(fsys, q, FALSE), {fullpath})
        ELSE IF fsys[q].kind = "dir" THEN failed(EISDIR, {fullpath})
        ELSE [err |-> OK, touched |-> {fullpath}, file |-> q,
              match |-> (Md5Hex(fsys[q].data) = req.ExpectedHash),
              size |-> Len(fsys[q].data) * CellBytes]

\* request paths: an entry of the root, a name not in use, and a path that
\* climbs out of the root into the neighbouring department
ReqPaths ==
    { <<"/", "x">>, <<"/", "n">>, <<"/", ".", ".", "/", "b", "/", "n">> }

NoCall ==
    [seq |-> 0, method |-> <<>>, md |-> NoMetadata, ran |-> FALSE,
     user |-> NoUser, code |-> "OK", touched |-> {}, token |-> EmptyToken]

\* the call is over: what it carried and what came of it
Answer(method, md, ctx, code, touched, token) ==
    rpc' = [seq |-> rpc.seq + 1, method |-> method, md |-> md, ran |-> ctx.pass,
            user |-> ctx.user, code |-> code, touched |-> touched,
            token |-> token]

\* the service's dispatch of a unary method to its handler
Handler(method, fsys, db, ctx, req) ==
    CASE method = Methods.Auth -> FuseServerAuth(fsys, db, ctx, req)
      [] method = Methods.CreateOrg -> FuseServerCreateOrg(fsys, db, ctx, req)
      [] method = Methods.CreateUser -> FuseServerCreateUser(fsys, db, ctx, req)
      [] method \in {Methods.Attr, Methods.Getattr} ->
             FuseServerGetattr(fsys, db, ctx, req)
      [] method = Methods.Lookup -> FuseServerLookup(fsys, db, ctx, req)
      [] method = Methods.ReadDirAll -> FuseServerReadDirAll(fsys, db, ctx, req)
      [] method = Methods.ReadAll -> FuseServerReadAll(fsys, db, ctx, req)
      [] method = Methods.Mkdir -> FuseServerMkdir(fsys, db, ctx, req)
      [] method = Methods.Rmdir -> FuseServerRmdir(fsys, db, ctx, req)
      [] method = Methods.Create -> FuseServerCreate(fsys, db, ctx, req)
      [] method = Methods.Symlink -> FuseServerSymlink(fsys, db, ctx, req)
      [] method = Methods.Link -> FuseServerLink(fsys, db, ctx, req)
      [] method = Methods.Write -> FuseServerWrite(fsys, db, ctx, req)
      [] method = Methods.Rename -> FuseServerRename(fsys, db, ctx, req)

\* the context AuthInterceptor hands to the handler of a unary method
UnaryCtx(method, md) == AuthInterceptor(FullMethod(method), md)

\* a unary call: AuthInterceptor, then the handler, whose outcome is r
Unary(method, md, r) ==
    /\ rpc.seq < MaxCalls
    /\ LET ctx == UnaryCtx(method, md)
           out == IF ctx.pass THEN r
                  ELSE Result(srvFs, userDb, "Unauthenticated", {}, EmptyToken)
       IN  /\ srvFs' = out.fs
           /\ userDb' = out.db
           /\ Answer(method, md, ctx, out.code, out.touched, out.token)
    /\ UNCHANGED <<eventVars, xferVars, cliVars>>

AuthReqs == [user : Users \cup {Stranger}, pwOk : BOOLEAN]

RpcAuth ==
    \E md \in MDs, req \in AuthReqs :
        LET ctx == UnaryCtx(Methods.Auth, md)
        IN  Unary(Methods.Auth, md,
                  FuseServerAuth(srvFs, userDb, ctx,
                      req))

RpcCreateOrg ==
    \E md \in MDs, req \in AuthReqs \cup {[user |-> NoUser, pwOk |-> TRUE]} :
        LET ctx == UnaryCtx(Methods.CreateOrg, md)
        IN  Unary(Methods.CreateOrg, md,
                  FuseServerCreateOrg(srvFs, userDb, ctx,
                      req))

RpcCreateUser ==
    \E md \in MDs, req \in AuthReqs :
        LET ctx == UnaryCtx(Methods.CreateUser, md)
        IN  Unary(Methods.CreateUser, md,
                  FuseServerCreateUser(srvFs, userDb, ctx,
                      req))

RpcAttr ==
    \E md \in MDs, p \in ReqPaths :
        LET ctx == UnaryCtx(Methods.Attr, md)
        IN  Unary(Methods.Attr, md,
                  FuseServerGetattr(srvFs, userDb, ctx,
                      [Path |-> p]))

RpcGetattr ==
    \E md \in MDs, p \in ReqPaths :
        LET ctx == UnaryCtx(Methods.Getattr, md)
        IN  Unary(Methods.Getattr, md,
                  FuseServerGetattr(srvFs, userDb, ctx,
                      [Path |-> p]))

RpcLookup ==
    \E md \in MDs, p \in ReqPaths :
        LET ctx == UnaryCtx(Methods.Lookup, md)
        IN  Unary(Methods.Lookup, md,
                  FuseServerLookup(srvFs, userDb, ctx,
                      [Path |-> p]))

RpcReadDirAll ==
    \E md \in MDs, p \in ReqPaths \cup {<<"/">>} :
        LET ctx == UnaryCtx(Methods.ReadDirAll, md)
        IN  Unary(Methods.ReadDirAll, md,
                  FuseServerReadDirAll(srvFs, userDb, ctx,
                      [Path |-> p]))

RpcReadAll ==
    \E md \in MDs, p \in ReqPaths :
        LET ctx == UnaryCtx(Methods.ReadAll, md)
        IN  Unary(Methods.ReadAll, md,
                  FuseServerReadAll(srvFs, userDb, ctx,
                      [Path |-> p]))

RpcMkdir ==
    \E md \in MDs, p \in ReqPaths :
        LET ctx == UnaryCtx(Methods.Mkdir, md)
        IN  Unary(Methods.Mkdir, md,
                  FuseServerMkdir(srvFs, userDb, ctx,
                      [Path |-> p, Mode |-> 493]))

RpcRmdir ==
    \E md \in MDs, p \in ReqPaths :
        LET ctx == UnaryCtx(Methods.Rmdir, md)
        IN  Unary(Methods.Rmdir, md,
                  FuseServerRmdir(srvFs, userDb, ctx,
                      [Path |-> p]))

RpcCreate ==
    \E md \in MDs, p \in ReqPaths, creat \in BOOLEAN :
        LET ctx == UnaryCtx(Methods.Create, md)
        IN  Unary(Methods.Create, md,
                  FuseServerCreate(srvFs, userDb, ctx,
                      [Path |-> p, Mode |-> 420,
                       Flags |-> [creat |-> creat, excl |-> FALSE,
                                  trunc |-> FALSE]]))

RpcSymlink ==
    \E md \in MDs, p \in ReqPaths, np \in ReqPaths :
        LET ctx == UnaryCtx(Methods.Symlink, md)
        IN  Unary(Methods.Symlink, md,
                  FuseServerSymlink(srvFs, userDb, ctx,
                      [Path |-> p, NewPath |-> np]))

RpcLink ==
    \E md \in MDs, p \in ReqPaths, np \in ReqPaths :
        LET ctx == UnaryCtx(Methods.Link, md)
        IN  Unary(Methods.Link, md,
                  FuseServerLink(srvFs, userDb, ctx,
                      [Path |-> p, NewPath |-> np]))

RpcWrite ==
    \E md \in MDs, p \in ReqPaths, off \in 0..1 :
        LET ctx == UnaryCtx(Methods.Write, md)
        IN  Unary(Methods.Write, md,
                  FuseServerWrite(srvFs, userDb, ctx,
                      [Path |-> p, Data |-> <<1>>, Offset |-> off]))

RpcRename ==
    \E md \in MDs, p \in ReqPaths, np \in ReqPaths :
        LET ctx == UnaryCtx(Methods.Rename, md)
        IN  Unary(Methods.Rename, md,
                  FuseServerRename(srvFs, userDb, ctx,
                      [Path |-> p, NewPath |-> np]))

\* a DownloadFile call: AuthStreamInterceptor, then the handler, which leaves
\* the store as it is
RpcDownloadFile ==
    /\ rpc.seq < MaxCalls
    /\ \E md \in MDs, p \in ReqPaths, h \in {<<>>, <<1>>} :
        LET ctx == AuthStreamInterceptor(md)
            o == DownloadOpen(srvFs, ctx, [Path |-> p, ExpectedHash |-> Md5Hex(h)])
        IN  IF ctx.pass
            THEN Answer(Methods.DownloadFile, md, ctx, grpcError(o.err),
                        o.touched, EmptyToken)
            ELSE Answer(Methods.DownloadFile, md, ctx, "Unauthenticated", {},
                        EmptyToken)
    /\ UNCHANGED <<srvFs, userDb, eventVars, xferVars, cliVars>>

\* an ObserveFileChanges call: AuthStreamInterceptor, then the handler up to
\* its loop
RpcObserveFileChanges ==
    /\ rpc.seq < MaxCalls
    /\ \E md \in MDs, c \in StreamIds :
        LET ctx == AuthStreamInterceptor(md)
        IN  /\ streams[c].pc = "idle"
            /\ \A b \in StreamIds : b < c => streams[b].pc # "idle"
            /\ IF ctx.pass
               THEN /\ ObserveRegister(c, ctx)
                    /\ Answer(Methods.ObserveFileChanges, md, ctx,
                              grpcError(getUsersDir(srvFs, ctx).err), {},
                              EmptyToken)
               ELSE /\ UNCHANGED <<streams, observers>>
                    /\ Answer(Methods.ObserveFileChanges, md, ctx,
                              "Unauthenticated", {}, EmptyToken)
    /\ UNCHANGED <<srvFs, userDb, lastOp, notifying, evHeap, broadcast, chans,
                   mainObs, delivering, srvCtxDone, due, placed, xferVars,
                   cliVars>>

(***************************************************************************)
(* differential download: client downloadFile (client/sync.go) against     *)
(* FuseServer.DownloadFile (grpc.go)                                       *)
(***************************************************************************)

\* the client's -realpath flag
cliRealpath == <<"/", "l">>

\* the user the client is logged in as
ClientUser == [OrgName |-> <<"a">>, DeptName |-> <<"b", "0">>]

\* file contents of up to MaxCells cells
Contents == UNION { [1..n -> {1, 2}] : n \in 0..MaxCells }

\* paths the client pulls: a file of the root, and a name the server lacks
XferPaths == { <<"/", "x">>, <<"/", "n">> }

IdleXfer ==
    [cpc |-> "idle", spc |-> "none", path |-> <<>>, hash |-> Md5Hex(<<>>),
     file |-> <<>>, matched |-> FALSE, info |-> 0, pos |-> 0, sentBytes |-> 0,
     wire |-> <<>>, code |-> "none", ctxDone |-> FALSE, lost |-> FALSE,
     totalExpectedSize |-> -1, recvBytes |-> 0, result |-> "none",
     sent |-> <<>>, rcvd |-> <<>>, eof |-> FALSE, before |-> <<>>,
     opened |-> FALSE, srvHash |-> Md5Hex(<<>>), dirty |-> FALSE]

\* the local file downloadFile works on
LocalPath(path) == Join(<<cliRealpath, path>>)

\* the client's downloadFile up to its receive loop: open (creating) the
\* local file, hash it, call DownloadFile with the digest
DownloadBegin(path, perm) ==
    LET fullpath == LocalPath(path)
        o == SysOpenCreate(cliFs, fullpath, FALSE, FALSE, perm)
    IN  /\ cliFs' = o.fs
        /\ xfer' =
             IF o.err # OK
             THEN [xfer EXCEPT !.cpc = "done", !.path = path, !.result = o.err]
             ELSE [xfer EXCEPT !.cpc = "recv", !.spc = "called",
                               !.path = path,
                               !.hash = Md5Hex(o.fs[fullpath].data),
                               !.before = o.fs[fullpath].data]

\* downloadFile called for a remote entry
DownloadStart ==
    /\ xfer.cpc = "idle"
    /\ \E path \in XferPaths : DownloadBegin(path, 420)
    /\ UNCHANGED <<busVars, rpcVars, cli>>

\* the handler is entered: interceptor, then DownloadFile up to its loop
DownloadServe ==
    /\ xfer.spc = "called"
    /\ LET ctx == AuthStreamInterceptor(NewAuthenticatedCtx(ClientUser))
           o == DownloadOpen(srvFs, ctx,
                             [Path |-> xfer.path, ExpectedHash |-> xfer.hash])
       IN  xfer' =
             IF ~ctx.pass
             THEN [xfer EXCEPT !.spc = "returned", !.code = "Unauthenticated"]
             ELSE IF o.err # OK
             THEN [xfer EXCEPT !.spc = "returned", !.code = grpcError(o.err),
                               !.file = o.file]
             ELSE IF o.match
             THEN [xfer EXCEPT !.spc = "returned", !.code = "OK",
                               !.file = o.file, !.matched = TRUE,
                               !.opened = TRUE,
                               !.srvHash = Md5Hex(srvFs[o.file].data)]
             ELSE [xfer EXCEPT !.spc = "loop", !.file = o.file,
                               !.info = o.size, !.opened = TRUE,
                               !.srvHash = Md5Hex(srvFs[o.file].data)]
    /\ UNCHANGED <<busVars, rpcVars, cliVars>>

\* file.Read(buff) at position pos reading the rest of the file at once
ReadBlock_whole(data, pos) == SubSeq(data, pos + 1, Len(data))

\* file.Read(buff) at position pos: up to a buffer of cells
ReadBlock(data, pos) ==
    SubSeq(data, pos + 1,
           IF pos + CellsPerBlock < Len(data) THEN pos + CellsPerBlock
           ELSE Len(data))

\* one turn of DownloadFile's loop: leave when the stream's context is done,
\* return at end of file, else send the next chunk
DownloadSend ==
    /\ xfer.spc = "loop"
    /\ LET block == ReadBlock(srvFs[xfer.file].data, xfer.pos)
           chunk == [Data |-> block, Offset |-> xfer.sentBytes,
                     TotalSize |-> xfer.info]
       IN  xfer' =
             IF xfer.ctxDone
             THEN [xfer EXCEPT !.spc = "returned", !.code = "OK"]
             ELSE IF Len(block) = 0
             THEN [xfer EXCEPT !.spc = "returned", !.code = "OK"]
             ELSE [xfer EXCEPT !.wire = Append(@, chunk),
                               !.sent = Append(@, chunk),
                               !.pos = @ + Len(block),
                               !.sentBytes = @ + Len(block) * CellBytes]
    /\ UNCHANGED <<busVars, rpcVars, cliVars>>

\* downloadFile's check accepting whatever was received
CompletionCheck_lax(totalExpectedSize, recvBytes) == "nil"

\* downloadFile after the stream's EOF: the result it returns
CompletionCheck(totalExpectedSize, recvBytes) ==
    IF totalExpectedSize = -1 \/ recvBytes = 0 THEN "nil"
    ELSE IF totalExpectedSize # -1 /\ recvBytes # totalExpectedSize
    THEN "size mismatch"
    ELSE "nil"

\* one stream.Recv of downloadFile and what follows it: a chunk is written
\* at its offset; EOF ends the loop; an error is returned
DownloadRecv ==
    /\ xfer.cpc = "recv"
    /\ \/ /\ Len(xfer.wire) > 0
          /\ LET chunk == Head(xfer.wire)
                 fullpath == LocalPath(xfer.path)
             IN  /\ cliFs' = [cliFs EXCEPT ![fullpath].data =
                                 WriteAt(@, chunk.Data, chunk.Offset \div CellBytes)]
                 /\ xfer' = [xfer EXCEPT
                       !.wire = Tail(@),
                       !.rcvd = Append(@, chunk),
                       !.totalExpectedSize =
                           IF @ = -1 THEN chunk.TotalSize ELSE @,
                       !.recvBytes = @ + Len(chunk.Data) * CellBytes]
       \/ /\ Len(xfer.wire) = 0 /\ xfer.spc = "returned" /\ ~xfer.lost
          /\ xfer' =
               IF xfer.code = "OK"
               THEN [xfer EXCEPT !.cpc = "done", !.eof = TRUE,
                        !.result = CompletionCheck(xfer.totalExpectedSize,
                                                   xfer.recvBytes)]
               ELSE [xfer EXCEPT !.cpc = "done", !.result = xfer.code]
          /\ UNCHANGED cliFs
       \/ /\ xfer.lost
          /\ xfer' = [xfer EXCEPT !.cpc = "done", !.result = "Unavailable"]
          /\ UNCHANGED cliFs
    /\ UNCHANGED <<busVars, rpcVars, cli>>

\* the connection breaks during the download: the stream's context is
\* cancelled on the server and the client's Recv fails
Disconnect ==
    /\ xfer.cpc = "recv"
    /\ ~xfer.lost
    /\ xfer' = [xfer EXCEPT !.lost = TRUE, !.ctxDone = TRUE]
    /\ UNCHANGED <<busVars, rpcVars, cliVars>>

\* while the download runs another client of the same root writes to the
\* file or truncates it (FuseServer.Write, FuseServer.Create with O_TRUNC)
ConcurrentWrite ==
    /\ xfer.spc \in {"called", "loop"}
    /\ ~xfer.dirty
    /\ \E req \in [Path : {xfer.path}, Data : {<<1>>, <<2, 2>>}, Offset : 0..MaxCells,
                   Mode : {420},
                   Flags : {[creat |-> TRUE, excl |-> FALSE, trunc |-> TRUE]}],
          trunc \in BOOLEAN :
        LET r == IF trunc
                 THEN FuseServerCreate(srvFs, userDb, UserCtx(ClientUser), req)
                 ELSE FuseServerWrite(srvFs, userDb, UserCtx(ClientUser), req)
        IN  /\ r.code = "OK"
            /\ r.fs # srvFs
            /\ srvFs' = r.fs
    /\ xfer' = [xfer EXCEPT !.dirty = TRUE]
    /\ UNCHANGED <<eventVars, rpcVars, cliVars>>

(***************************************************************************)
(* client: filesystem node and file handle (client/filesystem.go,          *)
(* client/files.go)                                                        *)
(***************************************************************************)

\* relativePath of the client: strip the client's realpath
cliRelativePath(path) == TrimPrefix(path, cliRealpath)

\* entry names the mount layer passes to the client's node operations
CliNames == { <<"x">>, <<"d">>, <<"n">> }

\* the directories the client holds nodes for
CliNodeDirs == { cliRealpath }

\* what a client operation leaves behind: the local tree, the errno it
\* returns to the mount layer, the mirror goroutines it spawned, and the
\* handle it opened (none: <<>>)
CliResult(fsys, errno, mirror, handle) ==
    [fs |-> fsys, errno |-> errno, mirror |-> mirror, handle |-> handle]

Mirror(method, req) == { [method |-> method, req |-> req] }

\* Node.Mkdir of the client
ClientMkdir(fsys, n, name, mode) ==
    LET fullpath == Join(<<n, name>>)
        r == SysMkdirAll(fsys, fullpath, mode)
    IN  IF r.err # OK THEN CliResult(r.fs, r.err, {}, <<>>)
        ELSE CliResult(r.fs, OK,
                       Mirror(Methods.Mkdir,
                              [Path |-> cliRelativePath(fullpath), Mode |-> mode]),
                       <<>>)

\* Node.Rmdir of the client
ClientRmdir(fsys, n, name) ==
    LET fullpath == Join(<<n, name>>)
        r == SysRmdir(fsys, fullpath)
    IN  IF r.err # OK THEN CliResult(fsys, r.err, {}, <<>>)
        ELSE CliResult(r.fs, OK,
                       Mirror(Methods.Rmdir, [Path |-> cliRelativePath(fullpath)]),
                       <<>>)

\* Node.Unlink of the client: os.Remove, mirrored by the Rmdir RPC
ClientUnlink(fsys, n, name) ==
    LET fullpath == Join(<<n, name>>)
        r == SysRemove(fsys, fullpath)
    IN  IF r.err # OK THEN CliResult(fsys, r.err, {}, <<>>)
        ELSE CliResult(r.fs, OK,
                       Mirror(Methods.Rmdir, [Path |-> cliRelativePath(fullpath)]),
                       <<>>)

\* Node.Rename as it would be if it linked the new name and left the old one
\* in place
ClientRename_link(fsys, n, oldName, newNode, newName) ==
    LET oldpath == Join(<<n, oldName>>)
        newpath == Join(<<newNode, newName>>)
        r == SysRename(fsys, oldpath, newpath)
    IN  IF r.err # OK THEN CliResult(fsys, r.err, {}, <<>>)
        ELSE CliResult(r.fs @@ (oldpath :> fsys[oldpath]), OK,
                       Mirror(Methods.Rename,
                              [Path |-> cliRelativePath(oldpath),
                               NewPath |-> cliRelativePath(newpath)]),
                       <<>>)

\* Node.Rename of the client
ClientRename(fsys, n, oldName, newNode, newName) ==
    LET oldpath == Join(<<n, oldName>>)
        newpath == Join(<<newNode, newName>>)
        newParentDir == Dir(newpath)
        m == IF SysStat(fsys, newParentDir) = ENOENT
             THEN SysMkdirAll(fsys, newParentDir, 493)
             ELSE [fs |-> fsys, err |-> OK]
        r == SysRename(m.fs, oldpath, newpath)
    IN  IF m.err # OK THEN CliResult(m.fs, m.err, {}, <<>>)
        ELSE IF r.err # OK THEN CliResult(m.fs, r.err, {}, <<>>)
        ELSE CliResult(r.fs, OK,
                       Mirror(Methods.Rename,
                              [Path |-> cliRelativePath(oldpath),
                               NewPath |-> cliRelativePath(newpath)]),
                       <<>>)

\* Node.Create of the client; the remote Create is spawned before syscall.Dup,
\* whose failure (dupErr) is returned
ClientCreate(fsys, n, name, flags, mode, dupErr) ==
    LET fullpath == Join(<<n, name>>)
        r == IF flags.creat
             THEN SysOpenCreate(fsys, fullpath, flags.excl, flags.trunc, mode)
             ELSE [fs |-> fsys, err |-> SysOpen(fsys, fullpath, TRUE)]
        mirror == Mirror(Methods.Create,
                         [Path |-> cliRelativePath(fullpath), Flags |-> flags,
                          Mode |-> mode])
    IN  IF r.err # OK THEN CliResult(fsys, r.err, {}, <<>>)
        ELSE IF dupErr # OK THEN CliResult(r.fs, dupErr, mirror, <<>>)
        ELSE CliResult(r.fs, OK, mirror, fullpath)

\* a Write that appends to the file whatever the offset
ClientWrite_append(fsys, fh, data, off) ==
    IF fh.fd = -1 THEN CliResult(fsys, EBADF, {}, <<>>)
    ELSE CliResult(IF fh.path \in DOMAIN fsys /\ fsys[fh.path].ino = fh.ino
                   THEN [fsys EXCEPT ![fh.path].data = @ \o data]
                   ELSE fsys,
                   OK,
                   Mirror(Methods.Write,
                          [Path |-> cliRelativePath(fh.path), Offset |-> off,
                           Data |-> data]),
                   <<>>)

\* FileHandle.Write: pwrite on the handle's descriptor, then the remote Write;
\* the bytes land in the file the descriptor was opened on, if the path still
\* names it
ClientWrite(fsys, fh, data, off) ==
    IF fh.fd = -1 THEN CliResult(fsys, EBADF, {}, <<>>)
    ELSE CliResult(IF fh.path \in DOMAIN fsys /\ fsys[fh.path].ino = fh.ino
                   THEN [fsys EXCEPT ![fh.path].data = WriteAt(@, data, off)]
                   ELSE fsys,
                   OK,
                   Mirror(Methods.Write,
                          [Path |-> cliRelativePath(fh.path), Offset |-> off,
                           Data |-> data]),
                   <<>>)

\* FileHandle.Getattr: Fstat on the handle's descriptor
FileHandleGetattr(fsys, fh) ==
    IF fh.fd = -1 THEN CliResult(fsys, EBADF, {}, <<>>)
    ELSE CliResult(fsys, OK, {}, <<>>)

\* Node.Lookup of the client: Lstat of the joined path; out.Attr and the
\* child's StableAttr are taken from the stat
ClientLookup(fsys, n, name) ==
    LET fullpath == Join(<<n, name>>)
    IN  CliResult(fsys, SysLstat(fsys, fullpath), {}, <<>>)

\* downloadFile run from its open to its return against the server's tree as
\* it stands, the connection staying up: the local file is created when
\* missing, the server streams its copy unless the digests are equal, and
\* every chunk is written at its offset
downloadFile(cfs, sfs, path, perm) ==
    LET fullpath == LocalPath(path)
        o == SysOpenCreate(cfs, fullpath, FALSE, FALSE, perm)
        ctx == AuthStreamInterceptor(NewAuthenticatedCtx(ClientUser))
        d == DownloadOpen(sfs, ctx,
                 [Path |-> path, ExpectedHash |-> Md5Hex(o.fs[fullpath].data)])
    IN  IF o.err # OK THEN [fs |-> cfs, err |-> o.err]
        ELSE IF ~ctx.pass THEN [fs |-> o.fs, err |-> "Unauthenticated"]
        ELSE IF d.err # OK THEN [fs |-> o.fs, err |-> grpcError(d.err)]
        ELSE IF d.match THEN [fs |-> o.fs, err |-> "nil"]
        ELSE [fs |-> [o.fs EXCEPT ![fullpath].data =
                         WriteAt(@, sfs[d.file].data, 0)],
              err |-> CompletionCheck(d.size, Len(sfs[d.file].data) * CellBytes)]

\* strings.Contains(path, "Trash")
IsTrash(path) == Contains(path, <<"T", "r", "a", "s", "h">>)

\* fetchRemoteEntries after ReadDirAll has answered: the directories of the
\* response are made with os.MkdirAll, the regular files are left to one
\* downloadFile goroutine each
RECURSIVE MkdirEntries(_, _)
MkdirEntries(fsys, dirs) ==
    IF dirs = {} THEN fsys
    ELSE LET e == CHOOSE e \in dirs : TRUE
         IN  MkdirEntries(SysMkdirAll(fsys, Join(<<cliRealpath, e.Path>>), 493).fs,
                          dirs \ {e})

\* the in-memory child mapping of the mount layer's inode tree: one record
\* per registered child, [parent, name, ino, path] (the parent node by its
\* path, the child's StableAttr.Ino and its Node.path)
GetChild(kids, parent, name) ==
    { k \in kids : k.parent = parent /\ k.name = name }

\* Inode.AddChild(name, ch, overwrite): with overwrite false it fails when
\* the name is registered already
AddChild(kids, parent, name, ch, overwrite) ==
    IF GetChild(kids, parent, name) # {} /\ ~overwrite THEN kids
    ELSE (kids \ GetChild(kids, parent, name))
         \cup { [parent |-> parent, name |-> name, ino |-> ch.ino, path |-> ch.path] }

\* Inode.MvChild(old, newParent, newName, overwrite): with overwrite false it
\* returns false and moves nothing when the destination is registered
MvChild(kids, parent, old, newParent, newName, overwrite) ==
    IF GetChild(kids, newParent, newName) # {} /\ ~overwrite THEN kids
    ELSE ((kids \ GetChild(kids, parent, old)) \ GetChild(kids, newParent, newName))
         \cup { [k EXCEPT !.parent = newParent, !.name = newName] :
                  k \in GetChild(kids, parent, old) }

\* the child mapping Node.Lookup leaves: a new persistent inode for the
\* entry, added without overwrite
LookupKids(kids, fsys, n, name) ==
    LET fullpath == Join(<<n, name>>)
    IN  IF SysLstat(fsys, fullpath) # OK THEN kids
        ELSE AddChild(kids, n, name,
                      [ino |-> fsys[fullpath].ino, path |-> fullpath], FALSE)

\* the child mapping Node.Rename leaves once os.Rename has succeeded (post:
\* the tree after it): the old child, when registered, is moved without
\* overwrite; then a new persistent inode for newpath is added without
\* overwrite
RenameKids(kids, post, n, oldName, newNode, newName) ==
    LET newpath == Join(<<newNode, newName>>)
        moved == IF GetChild(kids, n, oldName) # {}
                 THEN MvChild(kids, n, oldName, newNode, newName, FALSE)
                 ELSE kids
    IN  IF SysLstat(post, newpath) # OK THEN moved
        ELSE AddChild(moved, newNode, newName,
                      [ino |-> post[newpath].ino, path |-> newpath], FALSE)

\* the thread that runs Node.OnAdd: where it stands, the path it asked for,
\* the downloadFile goroutines it waits for, and the hooks run so far
IdleHook == [pc |-> "idle", path |-> <<>>, pending |-> {}, runs |-> 0,
             code |-> "none"]

\* no attributes filled in
NoAttr == [kind |-> "none", ino |-> 0, perm |-> 0, data |-> <<>>]

\* a Read of a file handle: where it stands, the handle, and once it has
\* returned its errno, the bytes the descriptor gives and the error of the
\* download it ran
IdleRead == [pc |-> "idle", h |-> 0, result |-> "none", data |-> <<>>,
             sync |-> "none"]

\* os.FileMode.Perm, and the two tests of handleFileEvent on the Mode of an
\* event: IsDir is bit 31, IsRegular is no type bit at all
ModePerm(mode) == mode.low % 512
ModeIsDir(mode) == mode.dir
ModeIsRegular(mode) == ~mode.dir

\* handleFileEvent with a rename that exchanges the two names when both
\* exist
handleFileEvent_exchange(cfs, sfs, ev) ==
    LET oldpath == Join(<<cliRealpath, ev.Path>>)
        newpath == Join(<<cliRealpath, ev.NewPath>>)
    IN  CASE ev.Event = "ADD_FILE" /\ ModeIsDir(ev.Mode) ->
               SysMkdirAll(cfs, oldpath, ModePerm(ev.Mode))
          [] ev.Event = "ADD_FILE" /\ ~ModeIsDir(ev.Mode) ->
               SysOpenCreate(cfs, oldpath, FALSE, FALSE, ModePerm(ev.Mode))
          [] ev.Event = "RENAME_FILE" ->
               IF oldpath \in DOMAIN cfs /\ newpath \in DOMAIN cfs
               THEN [fs |-> [cfs EXCEPT ![oldpath] = cfs[newpath],
                                        ![newpath] = cfs[oldpath]],
                     err |-> OK]
               ELSE SysRename(cfs, oldpath, newpath)
          [] ev.Event = "DELETE_FILE" -> SysRemove(cfs, oldpath)
          [] OTHER -> [fs |-> cfs, err |-> OK]

\* handleFileEvent on the local tree cfs (sfs: the server's tree a MODIFY
\* downloads from): the tree it leaves and the error it logs
handleFileEvent(cfs, sfs, ev) ==
    CASE ev.Event = "ADD_FILE" ->
           LET fullpath == Join(<<cliRealpath, ev.Path>>)
           IN  IF ModeIsDir(ev.Mode)
               THEN SysMkdirAll(cfs, fullpath, ModePerm(ev.Mode))
               ELSE IF ModeIsRegular(ev.Mode)
               THEN SysOpenCreate(cfs, fullpath, FALSE, FALSE, ModePerm(ev.Mode))
               ELSE [fs |-> cfs, err |-> OK]
      [] ev.Event = "MODIFY_FILE" ->
           downloadFile(cfs, sfs, ev.Path, ModePerm(ev.Mode))
      [] ev.Event = "RENAME_FILE" ->
           SysRename(cfs, Join(<<cliRealpath, ev.Path>>),
                     Join(<<cliRealpath, ev.NewPath>>))
      [] ev.Event = "DELETE_FILE" ->
           SysRemove(cfs, Join(<<cliRealpath, ev.Path>>))
      [] OTHER -> [fs |-> cfs, err |-> OK]

\* the REMOTE_OBSERVER goroutine: where its loop stands (no handler touches
\* that), how many events it has received from its stream, the handleFileEvent goroutines it spawned
\* that have not run yet, and the runs done (event, tree before, tree after,
\* error logged)
IdleObs == [pc |-> "loop", got |-> 0, handling |-> {}, applied |-> <<>>,
            cause |-> "none", opsAtEnd |-> 0]

(***************************************************************************)
(* Setattr: the attributes of one file and the requests of the mount layer *)
(***************************************************************************)

\* a field of fuse.SetAttrIn: GetMode, GetUID, GetGID, GetSize, GetATime and
\* GetMTime return the value and whether the request carries it
Absent == [ok |-> FALSE, v |-> 0]

Carried(v) == [ok |-> TRUE, v |-> v]

AttrFields == {"mode", "uid", "gid", "size", "atime", "mtime"}

\* syscall.Chown and syscall.Fchown: an id of -1 is left as it is
Chown(attr, suid, sgid) ==
    [attr EXCEPT !.uid = IF suid = -1 THEN @ ELSE suid,
                 !.gid = IF sgid = -1 THEN @ ELSE sgid]

\* unix.UtimesNanoAt: both timestamps are set to the values given
UtimesNanoAt(attr, timestamp) ==
    [attr EXCEPT !.atime = timestamp[1], !.mtime = timestamp[2]]

\* the zero value of unix.Timespec: the epoch
ZeroTimespec == 0

\* the steps of Setattr that the server's and the client's Node and the
\* client's FileHandle share: Chmod, Chown, Truncate
SetattrMode(attr, in) ==
    IF in.mode.ok THEN [attr EXCEPT !.mode = in.mode.v] ELSE attr

SetattrOwner(attr, in) ==
    IF in.uid.ok \/ in.gid.ok
    THEN Chown(attr, IF in.uid.ok THEN in.uid.v ELSE -1,
                     IF in.gid.ok THEN in.gid.v ELSE -1)
    ELSE attr

SetattrSize(attr, in) ==
    IF in.size.ok THEN [attr EXCEPT !.size = in.size.v] ELSE attr

\* the server's Node.Setattr: a timestamp the request does not carry stays the
\* zero Timespec in the pair handed to UtimesNanoAt
SetattrTimes(attr, in) ==
    IF in.mtime.ok \/ in.atime.ok
    THEN UtimesNanoAt(attr, << IF in.atime.ok THEN in.atime.v ELSE ZeroTimespec,
                               IF in.mtime.ok THEN in.mtime.v ELSE ZeroTimespec >>)
    ELSE attr

ServerNodeSetattr(attr, in) ==
    SetattrSize(SetattrTimes(SetattrOwner(SetattrMode(attr, in), in), in), in)

\* the client's Node.Setattr: the times are a TODO
ClientNodeSetattr(attr, in) ==
    SetattrSize(SetattrOwner(SetattrMode(attr, in), in), in)

\* the client's FileHandle.Setattr: Fchmod, Fchown, Ftruncate on the descriptor
FileHandleSetattr(attr, in) ==
    SetattrSize(SetattrOwner(SetattrMode(attr, in), in), in)

\* no Setattr has been served yet
NoSetattr == [impl |-> "none", pre |-> <<>>, in |-> <<>>, cur |-> <<>>]

(***************************************************************************)
(* one FileHandle and the calls the mount layer makes on it concurrently   *)
(***************************************************************************)

\* the goroutines of the mount layer that serve calls on the one handle
HandleThreads == {1, 2}

\* the descriptor number the handle was opened with
HandleFd == 3

\* the operations of FileHandle that use fh.fd, and the system call each makes
\* on it between fh.mu.Lock() and the deferred fh.mu.Unlock()
HandleSyscall ==
    [Read |-> "ReadResultFd", Write |-> "Pwrite", Release |-> "Close",
     Fsync |-> "Fsync", Getlk |-> "FcntlFlock", Setlk |-> "FcntlFlock",
     Setlkw |-> "FcntlFlock", Getattr |-> "Fstat", Setattr |-> "Fstat",
     Lseek |-> "Seek"]

HandleOps == DOMAIN HandleSyscall

\* what FileHandle.Setattr calls before it calls fh.Getattr: Fchmod, Fchown
\* and Ftruncate for the fields the request carries, in this order
SetattrCalls ==
    { <<>>, <<"Fchmod">>, <<"Fchown">>, <<"Ftruncate">>,
      <<"Fchmod", "Fchown">>, <<"Fchmod", "Ftruncate">>,
      <<"Fchown", "Ftruncate">>, <<"Fchmod", "Fchown", "Ftruncate">> }

IdleThread == [op |-> "none", pc |-> "idle", sys |-> "none", calls |-> <<>>,
               errno |-> "none"]

\* mu = 0: the mutex is free; open: the kernel still has descriptor HandleFd
\* open for this file
IdleHandle == [mu |-> 0, fd |-> HandleFd, open |-> TRUE,
               thr |-> [t \in HandleThreads |-> IdleThread]]

\* no handler has been called yet
NoRootCall == [called |-> FALSE, method |-> <<>>, ctx |-> NoCtx, req |-> <<>>,
               pre |-> <<>>, ud |-> <<>>, code |-> "none"]

\* grpcError has not been applied yet
NoMapping == [err |-> "none", code |-> "none"]

(***************************************************************************)
(* the in-memory filesystem (main.go)                                      *)
(* A Node is a heap object and so is its children map: nodes gives every   *)
(* node its name, its kind, its data and the map its children field points *)
(* to; maps gives every map its entries (name -> node).                    *)
(***************************************************************************)

\* an empty map
NoEntries == [x \in {} |-> 0]

\* the children map of node n
Children(m, n) == m.maps[m.nodes[n].children]

\* Node.Lookup: the children whose name field is `name`
MemLookup(m, n, name) ==
    { c \in { Children(m, n)[k] : k \in DOMAIN Children(m, n) } :
         m.nodes[c].name = name }

\* Node.Write: newData has offset + len(data) bytes, the first `offset` copied
\* from n.data[:offset], which panics when offset exceeds the capacity of
\* n.data (its length: every slice is made with the length it needs)
MemWrite(m, n, offset, data) ==
    IF m.nodes[n].isDir THEN [m |-> m, err |-> EISDIR]
    ELSE IF offset > Len(m.nodes[n].data) THEN [m |-> m, err |-> "panic"]
    ELSE [m |-> [m EXCEPT !.nodes[n].data = SubSeq(@, 1, offset) \o data],
          err |-> OK]

\* Node.Rename: newDir's children field is pointed to the moved node's map,
\* the directory n itself takes the new name, and the old entry is deleted
\* from n's map
MemRename(m, n, oldName, newName, newDir) ==
    IF oldName \notin DOMAIN Children(m, n) THEN [m |-> m, err |-> ENOENT]
    ELSE LET oldNode == Children(m, n)[oldName]
             m1 == [m EXCEPT !.nodes[newDir].children = m.nodes[oldNode].children]
             m2 == [m1 EXCEPT !.nodes[n].name = newName]
             kept == DOMAIN Children(m2, n) \ {oldName}
         IN  [m |-> [m2 EXCEPT !.maps[m2.nodes[n].children] =
                                   [k \in kept |-> Children(m2, n)[k]]],
              err |-> OK]

\* no operation has been served yet
NoMemOp == [op |-> "none", n |-> 0, offset |-> 0, data |-> <<>>, oldName |-> "",
            newName |-> "", newDir |-> 0, err |-> "none", pre |-> <<>>]

\* the root holds the directories a (with the file f) and b (with the file g)
\* and the file h
MemTree(f, h) ==
    [nodes |-> << [name |-> "/", isDir |-> TRUE,  data |-> <<>>, children |-> 1],
                  [name |-> "a", isDir |-> TRUE,  data |-> <<>>, children |-> 2],
                  [name |-> "b", isDir |-> TRUE,  data |-> <<>>, children |-> 3],
                  [name |-> "f", isDir |-> FALSE, data |-> f,    children |-> 4],
                  [name |-> "g", isDir |-> FALSE, data |-> <<>>, children |-> 5],
                  [name |-> "h", isDir |-> FALSE, data |-> h,    children |-> 6] >>,
     maps |-> << ("a" :> 2 @@ "b" :> 3 @@ "h" :> 6), ("f" :> 4), ("g" :> 5),
                 NoEntries, NoEntries, NoEntries >>]

IdleMem == [fs |-> MemTree(<<>>, <<>>), last |-> NoMemOp]

IdleCli == [ops |-> <<>>, mirrors |-> {}, log |-> {}, handles |-> <<>>,
            hook |-> IdleHook, sent |-> {}, read |-> IdleRead, obs |-> IdleObs,
            kids |-> {}, attr |-> NoSetattr,
            fh |-> IdleHandle, root |-> NoRootCall,
            mapped |-> NoMapping, mem |-> IdleMem]

\* the operation returns to the mount layer: `pre` keeps the local tree the
\* operation found and `arg` what it was called with
CliAfter(arg, op, r) ==
    [cli EXCEPT
       !.ops = Append(@, [op |-> op, arg |-> arg, pre |-> cliFs,
                          result |-> r.errno,
                          out |-> IF op \in {"Lookup", "Mkdir", "Create", "Getattr"}
                                     /\ r.errno = OK
                                  THEN r.fs[arg.path] ELSE NoAttr]),
       !.mirrors = @ \cup { [id |-> Len(cli.ops) + 1, method |-> m.method,
                             req |-> m.req] : m \in r.mirror },
       !.handles = IF r.handle = <<>> THEN @
                   ELSE Append(@, [path |-> r.handle, fd |-> 3 + Len(@),
                                   ino |-> r.fs[r.handle].ino])]

CliReturn(op, arg, res) ==
    \E r \in {res} :
        /\ cliFs' = r.fs
        /\ cli' = CliAfter(arg, op, r)
        /\ UNCHANGED <<busVars, rpcVars, xferVars>>

NoArg == [path |-> <<>>, newpath |-> <<>>, flags |-> [creat |-> FALSE, excl |-> FALSE, trunc |-> FALSE],
          dupErr |-> OK, fd |-> 0, data |-> <<>>, off |-> 0]

CliMkdir ==
    /\ Len(cli.ops) < MaxCliOps
    /\ \E n \in CliNodeDirs, name \in CliNames :
        CliReturn("Mkdir", [NoArg EXCEPT !.path = Join(<<n, name>>)],
                  ClientMkdir(cliFs, n, name, 493))

CliRmdir ==
    /\ Len(cli.ops) < MaxCliOps
    /\ \E n \in CliNodeDirs, name \in CliNames :
        CliReturn("Rmdir", [NoArg EXCEPT !.path = Join(<<n, name>>)],
                  ClientRmdir(cliFs, n, name))

CliUnlink ==
    /\ Len(cli.ops) < MaxCliOps
    /\ \E n \in CliNodeDirs, name \in CliNames :
        CliReturn("Unlink", [NoArg EXCEPT !.path = Join(<<n, name>>)],
                  ClientUnlink(cliFs, n, name))

CliRename ==
    /\ Len(cli.ops) < MaxCliOps
    /\ \E n \in CliNodeDirs, oldName \in CliNames, newNode \in CliNodeDirs,
          newName \in CliNames :
        CliReturn("Rename",
                  [NoArg EXCEPT !.path = Join(<<n, oldName>>),
                                !.newpath = Join(<<newNode, newName>>)],
                  ClientRename(cliFs, n, oldName, newNode, newName))

CliCreate ==
    /\ Len(cli.ops) < MaxCliOps
    /\ \E n \in CliNodeDirs, name \in CliNames, excl \in BOOLEAN,
          dupErr \in {OK, "EMFILE"} :
        LET flags == [creat |-> TRUE, excl |-> excl, trunc |-> FALSE]
        IN  CliReturn("Create",
                      [NoArg EXCEPT !.path = Join(<<n, name>>), !.flags = flags,
                                    !.dupErr = dupErr],
                      ClientCreate(cliFs, n, name, flags, 420, dupErr))

CliLookup ==
    /\ Len(cli.ops) < MaxCliOps
    /\ \E n \in CliNodeDirs, name \in CliNames :
        CliReturn("Lookup", [NoArg EXCEPT !.path = Join(<<n, name>>)],
                  ClientLookup(cliFs, n, name))

CliWrite ==
    /\ Len(cli.ops) < MaxCliOps
    /\ \E h \in 1..Len(cli.handles), off \in 0..1 :
        CliReturn("Write",
                  [NoArg EXCEPT !.path = cli.handles[h].path,
                                !.fd = cli.handles[h].fd,
                                !.data = <<2>>, !.off = off],
                  ClientWrite(cliFs, cli.handles[h], <<2>>, off))

\* FileHandle.Release: the descriptor is closed and the field set to -1
CliRelease ==
    /\ \E h \in 1..Len(cli.handles) :
        /\ cli.handles[h].fd # -1
        /\ cli' = [cli EXCEPT !.handles[h].fd = -1]
    /\ UNCHANGED <<busVars, rpcVars, xferVars, cliFs>>

\* FileHandle.Read is entered: downloadFile is called for the handle's path
\* with a DirEntry that has no Mode
ReadCall ==
    /\ cli.read.pc = "idle"
    /\ xfer.cpc = "idle"
    /\ \E h \in 1..Len(cli.handles) :
        /\ cli.handles[h].fd # -1
        /\ DownloadBegin(cliRelativePath(cli.handles[h].path), 0)
        /\ cli' = [cli EXCEPT !.read.pc = "sync", !.read.h = h]
    /\ UNCHANGED <<busVars, rpcVars>>

\* FileHandle.Read returning the download's error to the mount layer
ReadResult_surfaced(err) == IF err # "nil" THEN EIO ELSE OK

\* the errno FileHandle.Read returns once downloadFile has returned err: the
\* error is logged
ReadResult(err) == OK

\* downloadFile has returned: the result reads the handle's descriptor
ReadReturn ==
    /\ cli.read.pc = "sync"
    /\ xfer.cpc = "done"
    /\ LET fh == cli.handles[cli.read.h]
       IN  cli' = [cli EXCEPT
                !.read.pc = "done",
                !.read.result = ReadResult(xfer.result),
                !.read.sync = xfer.result,
                !.read.data = IF fh.path \in DOMAIN cliFs
                                 /\ cliFs[fh.path].ino = fh.ino
                              THEN cliFs[fh.path].data ELSE <<>>]
    /\ UNCHANGED <<busVars, rpcVars, xferVars, cliFs>>

\* nodes of the client's tree the mount layer may add: the root, the
\* directory d and the file x
CliHookNodes ==
    { cliRealpath, Join(<<cliRealpath, <<"d">> >>), Join(<<cliRealpath, <<"x">> >>) }

\* Node.OnAdd returns
HookReturn(c, code) ==
    [c EXCEPT !.hook = [IdleHook EXCEPT !.runs = c.hook.runs + 1, !.code = code]]

\* Node.OnAdd is entered: a node that is no directory returns at once, and so
\* does fetchRemoteEntries for a path holding "Trash"; else ReadDirAll is
\* called and the thread waits for its answer
CliOnAddCall ==
    /\ cli.hook.pc = "idle"
    /\ cli.hook.runs < MaxHooks
    /\ \E n \in CliHookNodes :
        /\ n \in DOMAIN cliFs
        /\ cli' = IF cliFs[n].kind # "dir" \/ IsTrash(cliRelativePath(n))
                  THEN HookReturn(cli, "none")
                  ELSE [cli EXCEPT !.hook.pc = "rpc",
                                   !.hook.path = cliRelativePath(n)]
    /\ UNCHANGED <<busVars, rpcVars, xferVars, cliFs>>

\* ReadDirAll is answered: on an error OnAdd logs it and returns; else the
\* directories of the response are made and one downloadFile goroutine is
\* started per regular file, and the thread waits for all of them (wg.Wait)
CliOnAddReply ==
    /\ cli.hook.pc = "rpc"
    /\ LET ctx == UnaryCtx(Methods.ReadDirAll, NewAuthenticatedCtx(ClientUser))
           req == [Path |-> cli.hook.path]
           r == FuseServerReadDirAll(srvFs, userDb, ctx, req)
           entries == ReadDirAllEntries(srvFs, ctx, req)
       IN  IF ~ctx.pass
           THEN /\ cli' = HookReturn(cli, "Unauthenticated")
                /\ UNCHANGED cliFs
           ELSE IF r.code # "OK"
           THEN /\ cli' = HookReturn(cli, r.code)
                /\ UNCHANGED cliFs
           ELSE /\ cliFs' = MkdirEntries(cliFs, { e \in entries : e.IsDir })
                /\ cli' = [cli EXCEPT
                      !.hook.pc = "wait",
                      !.hook.pending = { e.Path : e \in { e \in entries : e.IsRegular } }]
    /\ UNCHANGED <<busVars, rpcVars, xferVars>>

\* ReadDirAll fails without an answer of the server: the connection is down
CliOnAddFail ==
    /\ cli.hook.pc = "rpc"
    /\ cli' = HookReturn(cli, "Unavailable")
    /\ UNCHANGED <<busVars, rpcVars, xferVars, cliFs>>

\* one downloadFile goroutine of fetchRemoteEntries runs to its end
CliOnAddDownload ==
    /\ cli.hook.pc = "wait"
    /\ \E path \in cli.hook.pending :
        /\ cliFs' = downloadFile(cliFs, srvFs, path, 420).fs
        /\ cli' = [cli EXCEPT !.hook.pending = @ \ {path}]
    /\ UNCHANGED <<busVars, rpcVars, xferVars>>

\* wg.Wait returns, then fetchRemoteEntries and OnAdd
CliOnAddReturn ==
    /\ cli.hook.pc = "wait"
    /\ cli.hook.pending = {}
    /\ cli' = HookReturn(cli, "OK")
    /\ UNCHANGED <<busVars, rpcVars, xferVars, cliFs>>

\* a mirror goroutine surfacing the RPC's failure in the operation's result
MirrorDone_surfaced(c, g, code) ==
    [c EXCEPT !.mirrors = @ \ {g},
              !.log = @ \cup {[id |-> g.id, code |-> code]},
              !.ops[g.id].result = IF code # "OK" THEN EIO ELSE @]

\* a mirror goroutine once its RPC has returned: an error is logged
MirrorDone(c, g, code) ==
    [c EXCEPT !.mirrors = @ \ {g},
              !.log = @ \cup {[id |-> g.id, code |-> code]}]

\* what the goroutine of FileHandle.Write finds in `data` when it builds the
\* request: the slice belongs to the mount layer, which reuses its memory
\* once Write has returned
ReusedBuffer(data) == [1..Len(data) -> {1, 2}]

\* the request a mirror goroutine marshals
MirrorRequests(g) ==
    IF g.method = Methods.Write
    THEN { [g.req EXCEPT !.Data = d] : d \in ReusedBuffer(g.req.Data) }
    ELSE { g.req }

\* the RPC of a mirror goroutine reaches the server and is answered
MirrorCall(g) ==
    /\ g \in cli.mirrors
    /\ \E req \in MirrorRequests(g) :
       \E ctx \in {AuthInterceptor(FullMethod(g.method),
                                   NewAuthenticatedCtx(ClientUser))} :
       \E r \in {IF ctx.pass THEN Handler(g.method, srvFs, userDb, ctx, req)
                 ELSE Result(srvFs, userDb, "Unauthenticated", {}, EmptyToken)} :
            /\ srvFs' = r.fs
            /\ cli' = [MirrorDone(cli, g, r.code) EXCEPT
                          !.sent = @ \cup {[id |-> g.id, method |-> g.method,
                                            req |-> req]}]
    /\ UNCHANGED <<eventVars, rpcVars, xferVars, cliFs>>

\* the RPC of a mirror goroutine fails without reaching the server (the
\* connection is down, or the operation's context was cancelled)
MirrorFail(g) ==
    /\ g \in cli.mirrors
    /\ cli' = MirrorDone(cli, g, "Unavailable")
    /\ UNCHANGED <<busVars, rpcVars, xferVars, cliFs>>

(***************************************************************************)
(* the server: mount layer, event bus and observation streams              *)
(***************************************************************************)

DirEntry(i) == [kind |-> "dir", ino |-> i, perm |-> 493, data |-> <<>>]
FileEntry(i, d) == [kind |-> "file", ino |-> i, perm |-> 420, data |-> d]

\* the server's tree after CreateOrg for every user's organisation and
\* department; the root /a/b0 holds a file x and an empty directory .t
InitSrvFs ==
    (realpath :> DirEntry(1))
    @@ (Join(<<realpath, <<"a">> >>) :> DirEntry(2))
    @@ (Join(<<realpath, <<"a">>, <<"b">> >>) :> DirEntry(3))
    @@ (Join(<<realpath, <<"a">>, <<"b", "0">> >>) :> DirEntry(4))
    @@ (Join(<<realpath, <<"c">> >>) :> DirEntry(5))
    @@ (Join(<<realpath, <<"c">>, <<"d">> >>) :> DirEntry(6))
    @@ (Join(<<realpath, <<"a">>, <<"b", "0">>, <<"x">> >>) :> FileEntry(7, <<>>))
    @@ (Join(<<realpath, <<"a">>, <<"b", "0">>, <<".", "t">> >>) :> DirEntry(8))

NoOp == [seq |-> 0, op |-> "none", path |-> <<>>, newpath |-> <<>>, err |-> OK]

InitEvents ==
    /\ lastOp = NoOp
    /\ notifying = {}
    /\ evHeap = <<>>
    /\ broadcast = <<>>
    /\ observers = <<>>
    /\ chans = [c \in StreamIds |-> <<>>]
    /\ streams = [c \in StreamIds |-> IdleStream]
    /\ mainObs = [pc |-> "recv", ev |-> 0, clients |-> <<>>]
    /\ delivering = {}
    /\ srvCtxDone = FALSE
    /\ due = {}
    /\ placed = {}

InitBus == srvFs = InitSrvFs /\ InitEvents

\* the client's tree: its realpath directory, nothing pulled yet
InitCliFs == cliRealpath :> DirEntry(1)

InitRest ==
    /\ rpc = NoCall
    /\ userDb = Users
    /\ xfer = IdleXfer
    /\ cliFs = InitCliFs
    /\ cli = IdleCli

Init == InitBus /\ InitRest

Next ==
    \/ Mkdir
    \/ Rmdir
    \/ Unlink
    \/ Rename
    \/ Create
    \/ Symlink
    \/ Link
    \/ Setattr
    \/ \E g \in notifying : notifyObservers(g)
    \/ MainObserverRecv
    \/ MainObserverFanout
    \/ \E d \in delivering : Deliver(d)
    \/ \E c \in StreamIds, user \in Users : ObserveOpen(c, user)
    \/ \E c \in StreamIds : ObserveRecv(c)
    \/ \E c \in StreamIds : ObserveSend(c)
    \/ \E c \in StreamIds : ObserveDone(c)
    \/ \E c \in StreamIds : CancelStream(c)
    \/ CancelServer

Spec == Init /\ [][Next]_vars

\* the scheduler runs every runnable goroutine: the dispatcher's fan-out loop,
\* each delivery goroutine and each stream handler's loop
EvIds == 1..MaxOps

Fairness ==
    /\ WF_vars(MainObserverRecv)
    /\ WF_vars(MainObserverFanout)
    /\ \A e \in EvIds, c \in StreamIds : WF_vars(Deliver([ev |-> e, client |-> c]))
    /\ \A c \in StreamIds : WF_vars(ObserveRecv(c))
    /\ \A c \in StreamIds : WF_vars(ObserveSend(c))

SpecLive == Spec /\ Fairness

(***************************************************************************)
(* properties of the event bus                                             *)
(***************************************************************************)

\* C1 -- Subscriber isolation: an event is never placed on the channel of a
\* subscriber whose registered root is not a path-segment prefix of the
\* event's published path.
C1_SubscriberIsolation ==
    \A pr \in placed : UnderRoot(evHeap[pr[1]].pubPath, streams[pr[2]].root)

\* C2 (as stated) -- no event the dispatcher has dequeued is dropped: once the
\* dispatcher is done with it, every subscriber that was registered at a root
\* above the event's path has the event on its channel or a delivery goroutine
\* holding it.
C2_NoDequeuedEventDropped ==
    \A pr \in due :
        \/ pr \in placed
        \/ [ev |-> pr[1], client |-> pr[2]] \in delivering
        \/ /\ mainObs.pc = "fanout"
           /\ mainObs.ev = pr[1]
           /\ \E i \in 1..Len(mainObs.clients) : mainObs.clients[i] = pr[2]

\* C2 (amended) -- Delivery: every event the dispatcher dequeues is eventually
\* placed on the channel of every subscriber that was registered at a root
\* above its path, unless the dispatcher's context is cancelled.
C2_Delivery ==
    \A e \in EvIds, c \in StreamIds :
        (<<e, c>> \in due) ~> (<<e, c>> \in placed \/ srvCtxDone)

\* C2 witness: one event was placed on the channels of two subscribers
C2_Witness ==
    \E e \in EvIds :
        /\ \A c \in {1, 2} : <<e, c>> \in due /\ <<e, c>> \in placed
        /\ ~srvCtxDone

\* the event a successful node operation is to publish
EventOf(op) ==
    CASE op \in {"Mkdir", "Create", "Symlink", "Link"} -> "ADD_FILE"
      [] op \in {"Rmdir", "Unlink"} -> "DELETE_FILE"
      [] op = "Rename" -> "RENAME_FILE"
      [] OTHER -> "MODIFY_FILE"

\* C5 -- every mutating node operation that succeeds publishes a FileEvent of
\* the corresponding kind for its path: once the goroutines the operation
\* spawned have run, such an event has been put on the broadcast queue.
C5_MutationPublishesEvent ==
    (/\ lastOp.seq > 0
     /\ lastOp.err = OK
     /\ ~\E g \in notifying : g.id = lastOp.seq)
    => \E i \in 1..Len(evHeap) :
           /\ evHeap[i].op = lastOp.seq
           /\ evHeap[i].Event = EventOf(lastOp.op)
           /\ evHeap[i].pubPath = relativePath(lastOp.path)

(***************************************************************************)
(* the server's RPC surface: interceptors and handlers                     *)
(***************************************************************************)

NextRpc ==
    \/ RpcAuth
    \/ RpcCreateOrg
    \/ RpcCreateUser
    \/ RpcAttr
    \/ RpcGetattr
    \/ RpcLookup
    \/ RpcReadDirAll
    \/ RpcReadAll
    \/ RpcMkdir
    \/ RpcRmdir
    \/ RpcCreate
    \/ RpcSymlink
    \/ RpcLink
    \/ RpcWrite
    \/ RpcRename
    \/ RpcDownloadFile
    \/ RpcObserveFileChanges

SpecRpc == Init /\ [][NextRpc]_vars

\* every RPC other than Auth, CreateOrg and CreateUser
Protected(method) ==
    method \notin {Methods.Auth, Methods.CreateOrg, Methods.CreateUser}

\* the call carries a token generateToken issued and that has not expired
CarriesValidToken(md) ==
    /\ md.present
    /\ md.hasKey
    /\ Len(md.tokens) > 0
    /\ md.tokens[1] = generateToken(md.tokens[1].sub)

\* C3 -- Authentication gate: for every RPC other than Auth, CreateOrg and
\* CreateUser, unary or streaming, the handler runs only if the call carries
\* a valid token; a call without metadata, without the authorization key or
\* with an invalid token returns Unauthenticated and leaves the backing
\* store, the users table and the registry unchanged.
C3_AuthGate ==
    [][ (rpc'.seq # rpc.seq /\ Protected(rpc'.method))
        => /\ rpc'.ran => CarriesValidToken(rpc'.md)
           /\ ~CarriesValidToken(rpc'.md)
              => /\ rpc'.code = "Unauthenticated"
                 /\ srvFs' = srvFs
                 /\ userDb' = userDb
                 /\ observers' = observers ]_vars

\* C3 witness: a mutating RPC that presented a token signed with another key
\* was answered Unauthenticated without its handler running
C3_Witness ==
    /\ rpc.seq > 0
    /\ rpc.method \in {Methods.Mkdir, Methods.Write, Methods.Rename}
    /\ rpc.md.present /\ Len(rpc.md.tokens) > 0
    /\ rpc.md.tokens[1].key # SECRET_KEY /\ rpc.md.tokens[1].alg = "HS256"
    /\ rpc.code = "Unauthenticated"
    /\ ~rpc.ran

\* the filesystem-mirror and transfer handlers
MirrorMethods ==
    { Methods.Attr, Methods.Getattr, Methods.Lookup, Methods.ReadDirAll,
      Methods.ReadAll, Methods.Mkdir, Methods.Rmdir, Methods.Create,
      Methods.Symlink, Methods.Link, Methods.Write, Methods.Rename,
      Methods.DownloadFile }

\* C4 -- Root confinement: each backing path a filesystem-mirror or transfer
\* handler reads or writes lies under the caller's resolved root
\* <mountpoint>/<org>/<dept>, whatever path the client supplied.
C4_RootConfinement ==
    (rpc.ran /\ rpc.method \in MirrorMethods)
    => \A p \in rpc.touched :
           UnderRoot(p, Join(<<mountpoint, rpc.user.OrgName, rpc.user.DeptName>>))

(***************************************************************************)
(* one differential download                                               *)
(***************************************************************************)

\* the server's copy of the file and the client's local one start with any
\* contents; the local file may not exist yet
InitXfer ==
    /\ \E d \in Contents :
          srvFs = [InitSrvFs EXCEPT
                     ![HostPath(FullPath(<<"/", "a", "/", "b", "0">>, <<"/", "x">>))].data = d]
    /\ \E l \in Contents, present \in BOOLEAN :
          /\ present \/ l = <<>>
          /\ cliFs = IF present
                     THEN InitCliFs @@ (LocalPath(<<"/", "x">>) :> FileEntry(2, l))
                     ELSE InitCliFs
    /\ InitEvents
    /\ rpc = NoCall
    /\ userDb = Users
    /\ xfer = IdleXfer
    /\ cli = IdleCli

NextXfer ==
    \/ DownloadStart
    \/ DownloadServe
    \/ DownloadSend
    \/ DownloadRecv
    \/ Disconnect
    \/ ConcurrentWrite

SpecXfer == InitXfer /\ [][NextXfer]_vars

\* the bytes a sequence of chunks carries
RECURSIVE SumBytes(_)
SumBytes(chunks) ==
    IF chunks = <<>> THEN 0
    ELSE Len(Head(chunks).Data) * CellBytes + SumBytes(Tail(chunks))

\* C6 -- Convergence by pull: whatever the local and the server contents
\* were, with no write to the server's copy during the download, after
\* downloadFile returns without error the local file is byte-identical to
\* the server's copy.
C6_ConvergenceByPull ==
    (xfer.cpc = "done" /\ xfer.result = "nil" /\ ~xfer.dirty)
    => cliFs[LocalPath(xfer.path)].data = srvFs[xfer.file].data

\* C7 -- NoChange: when the request's ExpectedHash equals the hash of the
\* server's copy the server sends zero chunks, the local file keeps its bytes
\* and length, and downloadFile returns without error.
C7_NoChange ==
    (xfer.opened /\ xfer.srvHash = xfer.hash)
    => /\ xfer.sent = <<>>
       /\ cliFs[LocalPath(xfer.path)].data = xfer.before
       /\ (xfer.cpc = "done" /\ ~xfer.lost) => xfer.result = "nil"

\* C7 witness: a download of a non-empty file that both sides hold with the
\* same content has returned nil
C7_Witness ==
    /\ xfer.opened /\ xfer.srvHash = xfer.hash
    /\ Len(xfer.before) > 0
    /\ xfer.cpc = "done" /\ xfer.result = "nil"

\* the handler has streamed the whole file: it returned at end of file with
\* the hashes different and the stream's context never cancelled
StreamCompleted ==
    /\ xfer.spc = "returned" /\ xfer.code = "OK"
    /\ xfer.opened /\ xfer.srvHash # xfer.hash
    /\ ~xfer.ctxDone

\* chunks of at most 64 KiB, offsets starting at 0 and each the sum of the
\* preceding lengths, one totalSize
ChunksWellFormed(chunks) ==
    \A i \in 1..Len(chunks) :
        /\ Len(chunks[i].Data) * CellBytes <= 64 * 1024
        /\ chunks[i].Offset = SumBytes(SubSeq(chunks, 1, i - 1))
        /\ chunks[i].TotalSize = chunks[1].TotalSize

\* C8 (as stated) -- when the hashes differ and the stream runs to
\* completion, the chunks are at most 64 KiB each, their offsets start at 0
\* and each equal the sum of the preceding lengths, all carry the same
\* totalSize, and the payload lengths sum to that totalSize.
C8_ChunksSumToTotal ==
    StreamCompleted
    => /\ ChunksWellFormed(xfer.sent)
       /\ \A i \in 1..Len(xfer.sent) : xfer.sent[i].TotalSize = SumBytes(xfer.sent)

\* C8 (amended) -- the same, the sum being the announced totalSize when the
\* server's copy was not written to while it was streamed.
C8_ChunksSumToTotalUnlessWritten ==
    StreamCompleted
    => /\ ChunksWellFormed(xfer.sent)
       /\ ~xfer.dirty
          => \A i \in 1..Len(xfer.sent) :
                 xfer.sent[i].TotalSize = SumBytes(xfer.sent)

\* C8 witness: a file of more than one buffer was streamed in several chunks
C8_Witness ==
    /\ StreamCompleted
    /\ ~xfer.dirty
    /\ Len(xfer.sent) >= 2

\* C9 -- Completion check: whenever the client received at least one chunk,
\* downloadFile returns success only if the bytes it wrote equal the
\* totalSize of the first chunk, and returns the size-mismatch error when the
\* stream ended and they differ.
C9_CompletionCheck ==
    (xfer.cpc = "done" /\ Len(xfer.rcvd) >= 1)
    => /\ xfer.result = "nil" => SumBytes(xfer.rcvd) = xfer.rcvd[1].TotalSize
       /\ (xfer.eof /\ SumBytes(xfer.rcvd) # xfer.rcvd[1].TotalSize)
          => xfer.result = "size mismatch"

\* C9 witness: the stream ended after chunks whose bytes do not add up to
\* the first chunk's totalSize and downloadFile returned the error
C9_Witness ==
    /\ xfer.cpc = "done" /\ xfer.eof
    /\ Len(xfer.rcvd) >= 1
    /\ SumBytes(xfer.rcvd) # xfer.rcvd[1].TotalSize
    /\ xfer.result = "size mismatch"

(***************************************************************************)
(* the client's mount: local operations and their mirror goroutines        *)
(***************************************************************************)

\* the observation stream the client's REMOTE_OBSERVER reads
ObsStream == 1

\* startRemoteObserver's loop: stream.Recv() returns the next event the
\* server sent and the loop spawns `go handleFileEvent(fileEvent)`
RemoteObserverRecv ==
    /\ cli.obs.pc = "loop"
    /\ cli.obs.got < Len(streams[ObsStream].sent)
    /\ cli' = [cli EXCEPT
          !.obs.got = @ + 1,
          !.obs.handling = @ \cup { [id |-> cli.obs.got + 1,
                                     ev |-> streams[ObsStream].sent[cli.obs.got + 1]] }]
    /\ UNCHANGED <<busVars, rpcVars, xferVars, cliFs>>

\* one handleFileEvent goroutine runs
HandleFileEvent(g) ==
    /\ g \in cli.obs.handling
    /\ LET r == handleFileEvent(cliFs, srvFs, g.ev)
       IN  /\ cliFs' = r.fs
           /\ cli' = [cli EXCEPT
                 !.obs.handling = @ \ {g},
                 !.obs.applied = Append(@, [id |-> g.id, ev |-> g.ev,
                                            pre |-> cliFs, post |-> r.fs,
                                            err |-> r.err])]
    /\ UNCHANGED <<busVars, rpcVars, xferVars>>

\* the requests of the mount layer: every subset of the six fields
SetattrRequests ==
    { [mode  |-> IF "mode"  \in s THEN Carried(448) ELSE Absent,
       uid   |-> IF "uid"   \in s THEN Carried(1)   ELSE Absent,
       gid   |-> IF "gid"   \in s THEN Carried(1)   ELSE Absent,
       size  |-> IF "size"  \in s THEN Carried(3)   ELSE Absent,
       atime |-> IF "atime" \in s THEN Carried(7)   ELSE Absent,
       mtime |-> IF "mtime" \in s THEN Carried(8)   ELSE Absent] : s \in SUBSET AttrFields }

\* the attributes the file can have when the one request arrives
SetattrFiles ==
    [mode : {420, 384}, uid : {1000}, gid : {1000, 100}, size : {0, 5},
     atime : {4, 5}, mtime : {4, 5}]

SetattrReturn(impl, in, cur) ==
    /\ cli.attr.impl = "none"
    /\ cli' = [cli EXCEPT !.attr = [impl |-> impl, pre |-> cli.attr.cur,
                                    in |-> in, cur |-> cur]]
    /\ UNCHANGED <<cliFs, busVars, rpcVars, xferVars>>

\* the server's Node.Setattr on the file
SetattrServer ==
    \E in \in SetattrRequests :
        SetattrReturn("server", in, ServerNodeSetattr(cli.attr.cur, in))

\* the client's Node.Setattr on the file
SetattrClient ==
    \E in \in SetattrRequests :
        SetattrReturn("client", in, ClientNodeSetattr(cli.attr.cur, in))

\* the client's FileHandle.Setattr on the open file
SetattrHandle ==
    \E in \in SetattrRequests :
        SetattrReturn("handle", in, FileHandleSetattr(cli.attr.cur, in))

HandleStep(h) ==
    /\ cli' = [cli EXCEPT !.fh = h]
    /\ UNCHANGED <<cliFs, busVars, rpcVars, xferVars>>

\* the mount layer calls an operation of the handle: Setattr starts with its
\* Fchmod/Fchown/Ftruncate calls, every other operation with fh.mu.Lock()
HandleCall(t) ==
    /\ cli.fh.thr[t].pc = "idle"
    /\ \E op \in HandleOps : \E calls \in SetattrCalls :
        /\ (op # "Setattr") => calls = <<>>
        /\ HandleStep([cli.fh EXCEPT !.thr[t] =
               IF calls = <<>>
               THEN [op |-> op, pc |-> "lock", sys |-> "none", calls |-> <<>>,
                     errno |-> "none"]
               ELSE [op |-> op, pc |-> "sys", sys |-> Head(calls),
                     calls |-> Tail(calls), errno |-> "none"]])

\* fh.mu.Lock(); Release closes only a descriptor that is not -1
HandleLock(t) ==
    LET th == cli.fh.thr[t]
    IN  /\ th.pc = "lock"
        /\ cli.fh.mu = 0
        /\ HandleStep([cli.fh EXCEPT
               !.mu = t,
               !.thr[t].pc = IF th.op = "Release" /\ cli.fh.fd = -1
                             THEN "unlock" ELSE "sys",
               !.thr[t].sys = HandleSyscall[th.op]])

\* the system call on fh.fd: on a descriptor the kernel has closed it fails
\* with EBADF, or acts on whatever file got the number since
HandleSys(t) ==
    LET th == cli.fh.thr[t]
    IN  /\ th.pc = "sys"
        /\ \E errno \in IF cli.fh.fd # -1 /\ cli.fh.open THEN {OK}
                        ELSE IF cli.fh.fd = -1 THEN {EBADF}
                        ELSE {EBADF, "reused"} :
            HandleStep([cli.fh EXCEPT
               !.open = IF th.sys = "Close" THEN FALSE ELSE @,
               !.thr[t].errno = errno,
               !.thr[t].pc =
                   IF cli.fh.mu = t
                   THEN IF th.sys = "Close" THEN "clear" ELSE "unlock"
                   ELSE IF errno = EBADF THEN "idle"
                   ELSE IF th.calls # <<>> THEN "sys" ELSE "lock",
               !.thr[t].sys = IF cli.fh.mu # t /\ errno # EBADF /\ th.calls # <<>>
                              THEN Head(th.calls) ELSE th.sys,
               !.thr[t].calls = IF cli.fh.mu # t /\ errno # EBADF /\ th.calls # <<>>
                                THEN Tail(th.calls) ELSE th.calls])

\* Release that leaves the number in fh.fd after closing it
HandleClear_keep(t) ==
    /\ cli.fh.thr[t].pc = "clear"
    /\ HandleStep([cli.fh EXCEPT !.thr[t].pc = "unlock"])

\* Release: fh.fd = -1
HandleClear(t) ==
    /\ cli.fh.thr[t].pc = "clear"
    /\ HandleStep([cli.fh EXCEPT !.fd = -1, !.thr[t].pc = "unlock"])

\* the deferred fh.mu.Unlock() as the operation returns
HandleUnlock(t) ==
    /\ cli.fh.thr[t].pc = "unlock"
    /\ HandleStep([cli.fh EXCEPT !.mu = 0, !.thr[t].pc = "idle"])

\* the observation stream is over for the client: its context is cancelled or
\* the connection dropped (the server sees the stream's context done), or the
\* server's handler has returned
StreamOver(c) == streams[c].ctxDone \/ streams[c].pc = "returned"

\* how startRemoteObserver can learn of it: `case <-ctx.Done()`, a Recv error,
\* or io.EOF once every message sent before the handler returned nil is read
StreamEndCauses(c) ==
    (IF streams[c].ctxDone THEN {"ctx.Done", "error"} ELSE {})
    \cup (IF streams[c].pc = "returned" /\ cli.obs.got = Len(streams[c].sent)
          THEN {IF streams[c].status = "OK" THEN "EOF" ELSE "error"} ELSE {})

\* a loop that logs the error and goes on receiving
RemoteObserverEnd_continue ==
    /\ cli.obs.pc = "loop"
    /\ \E cause \in StreamEndCauses(ObsStream) :
          cli' = [cli EXCEPT !.obs.cause = cause]
    /\ UNCHANGED <<busVars, rpcVars, xferVars, cliFs>>

\* startRemoteObserver returns (`return`, `break outer`): the goroutine ends
RemoteObserverEnd ==
    /\ cli.obs.pc = "loop"
    /\ \E cause \in StreamEndCauses(ObsStream) :
          cli' = [cli EXCEPT !.obs.pc = "ended", !.obs.cause = cause,
                             !.obs.opsAtEnd = Len(cli.ops)]
    /\ UNCHANGED <<busVars, rpcVars, xferVars, cliFs>>

\* after the goroutine has ended the client calls ObserveFileChanges again and
\* the server's handler registers the new stream
ObserveAgain ==
    /\ cli.obs.pc = "ended"
    /\ ObserveOpen(ObsStream + 1, ClientUser)

\* the contexts a handler can be entered with: no user, a registered user, a
\* user whose directories were never made
RootCtxs == {NoCtx} \cup { UserCtx(u) : u \in Users \cup {Stranger} }

\* the server's tree, and the tree after the directory of department a/b was
\* removed, replaced by a file, by a dangling symbolic link, by a symbolic link
\* to the directory of a/b0, and after the directory of organisation c was
\* replaced by a file
RootTrees ==
    LET ab == Join(<<realpath, <<"a">>, <<"b">> >>)
        c  == Join(<<realpath, <<"c">> >>)
        cd == Join(<<realpath, <<"c">>, <<"d">> >>)
        gone == SysRmdir(InitSrvFs, ab).fs
        nocd == SysRmdir(InitSrvFs, cd).fs
    IN  { InitSrvFs, gone,
          SysOpenCreate(gone, ab, FALSE, FALSE, 420).fs,
          SysSymlink(gone, <<"n">>, ab).fs,
          SysSymlink(gone, <<"b", "0">>, ab).fs,
          SysOpenCreate(SysRmdir(nocd, c).fs, c, FALSE, FALSE, 420).fs }

\* a handler entered with ctx has returned r
RootReturn(method, ctx, req, r) ==
    /\ ~cli.root.called
    /\ srvFs' = r.fs
    /\ userDb' = r.db
    /\ cli' = [cli EXCEPT !.root = [called |-> TRUE, method |-> method,
                                    ctx |-> ctx, req |-> req, pre |-> srvFs,
                                    ud |-> getUsersDir(srvFs, ctx),
                                    code |-> r.code]]
    /\ UNCHANGED <<eventVars, rpc, xferVars, cliFs>>

\* FuseServer.Mkdir
RootMkdir ==
    \E ctx \in RootCtxs, req \in [Path : ReqPaths \cup {<<"/">>}, Mode : {493}] :
        RootReturn(Methods.Mkdir, ctx, req, FuseServerMkdir(srvFs, userDb, ctx, req))

\* FuseServer.Getattr
RootGetattr ==
    \E ctx \in RootCtxs, req \in [Path : ReqPaths] :
        RootReturn(Methods.Getattr, ctx, req, FuseServerGetattr(srvFs, userDb, ctx, req))

\* the file of the scenario and the handle the mount layer holds on it
SparsePath == LocalPath(<<"/", "x">>)

SparseHandle == [path |-> SparsePath, fd |-> 3, ino |-> 2]

\* "ABC"
ABC == <<65, 66, 67>>

\* FileHandle.Write of "ABC" at offset 10 on the open handle
SparseWrite ==
    /\ cli.ops = <<>>
    /\ CliReturn("Write",
                 [NoArg EXCEPT !.path = SparsePath, !.fd = SparseHandle.fd,
                               !.data = ABC, !.off = 10],
                 ClientWrite(cliFs, SparseHandle, ABC, 10))

\* FileHandle.Read of the whole file after the Write has returned:
\* downloadFile for the handle's path, then the bytes of the descriptor
SparseRead ==
    /\ cli.ops # <<>>
    /\ cli.read.pc = "idle"
    /\ \E d \in {downloadFile(cliFs, srvFs, cliRelativePath(SparsePath), 0)} :
          /\ cliFs' = d.fs
          /\ cli' = [cli EXCEPT !.read.pc = "done", !.read.h = 1,
                                !.read.result = ReadResult(d.err),
                                !.read.sync = d.err,
                                !.read.data = d.fs[SparsePath].data]
    /\ UNCHANGED <<busVars, rpcVars, xferVars>>

\* Node.Create of a name of the root, with or without O_EXCL and O_TRUNC
SizeCreate ==
    /\ cli.ops = <<>>
    /\ \E name \in {<<"x">>, <<"n">>}, excl \in BOOLEAN, trunc \in BOOLEAN :
        LET flags == [creat |-> TRUE, excl |-> excl, trunc |-> trunc]
        IN  CliReturn("Create",
                      [NoArg EXCEPT !.path = Join(<<cliRealpath, name>>),
                                    !.flags = flags],
                      ClientCreate(cliFs, cliRealpath, name, flags, 420, OK))

\* FileHandle.Write of b at offset 0 on the handle Create returned
SizeWrite ==
    /\ Len(cli.ops) = 1
    /\ Len(cli.handles) = 1
    /\ \E b \in Contents :
        CliReturn("Write",
                  [NoArg EXCEPT !.path = cli.handles[1].path,
                                !.fd = cli.handles[1].fd, !.data = b],
                  ClientWrite(cliFs, cli.handles[1], b, 0))

\* FileHandle.Getattr on the same handle
SizeGetattr ==
    /\ Len(cli.ops) = 2
    /\ cli.ops[2].result = OK
    /\ CliReturn("Getattr",
                 [NoArg EXCEPT !.path = cli.handles[1].path,
                               !.fd = cli.handles[1].fd],
                 FileHandleGetattr(cliFs, cli.handles[1]))

\* errors a system call on the backing store can fail with, and the error of
\* getUsersDir
StoreErrors ==
    { ENOENT, "EACCES", "EPERM", "EAGAIN", "ETIMEDOUT", EEXIST, ENOTEMPTY, EIO,
      "ENOSPC", "EINVAL", ENOTDIR, EISDIR, EXDEV, EBADF, "ELOOP", "EMFILE",
      "user not logged in" }

\* a handler returns grpcError(err) for the error a system call gave it
GrpcErrorReturn ==
    /\ cli.mapped.err = "none"
    /\ \E err \in StoreErrors :
          cli' = [cli EXCEPT !.mapped = [err |-> err, code |-> grpcError(err)]]
    /\ UNCHANGED <<busVars, rpcVars, xferVars, cliFs>>

MemReturn(last, r) ==
    /\ cli.mem.last.op = "none"
    /\ cli' = [cli EXCEPT !.mem = [fs |-> r.m,
                                   last |-> [last EXCEPT !.err = r.err,
                                                         !.pre = cli.mem.fs]]]
    /\ UNCHANGED <<busVars, rpcVars, xferVars, cliFs>>

\* the mount layer writes to a node
MemWriteCall ==
    \E n \in {1, 4, 6}, offset \in 0..(MaxCells + 1), data \in Contents :
        MemReturn([NoMemOp EXCEPT !.op = "Write", !.n = n, !.offset = offset,
                                  !.data = data],
                  MemWrite(cli.mem.fs, n, offset, data))

\* the mount layer renames an entry of directory n into directory newDir
MemRenameCall ==
    \E n \in {1, 2, 3}, newDir \in {1, 2, 3}, oldName \in {"a", "f", "h", "n"},
       newName \in {"f", "n"} :
        MemReturn([NoMemOp EXCEPT !.op = "Rename", !.n = n, !.oldName = oldName,
                                  !.newName = newName, !.newDir = newDir],
                  MemRename(cli.mem.fs, n, oldName, newName, newDir))

\* the directories the mount layer holds nodes for when entries move between
\* directories, and the names it passes
KidsDirs == { cliRealpath, Join(<<cliRealpath, <<"d">> >>) }
KidsNames == { <<"x">>, <<"y">>, <<"n">> }

\* Node.Lookup with the child it registers
KidsLookup ==
    /\ Len(cli.ops) < MaxCliOps
    /\ \E n \in KidsDirs, name \in KidsNames :
       \E r \in {ClientLookup(cliFs, n, name)} :
          /\ cliFs' = r.fs
          /\ cli' = [CliAfter([NoArg EXCEPT !.path = Join(<<n, name>>)], "Lookup", r)
                       EXCEPT !.kids = LookupKids(cli.kids, cliFs, n, name)]
          /\ UNCHANGED <<busVars, rpcVars, xferVars>>

\* Node.Rename with the child mapping it leaves
KidsRename ==
    /\ Len(cli.ops) < MaxCliOps
    /\ \E n \in KidsDirs, oldName \in KidsNames, newNode \in KidsDirs,
          newName \in KidsNames :
       \E r \in {ClientRename(cliFs, n, oldName, newNode, newName)} :
          /\ cliFs' = r.fs
          /\ cli' = [CliAfter([NoArg EXCEPT !.path = Join(<<n, oldName>>),
                                            !.newpath = Join(<<newNode, newName>>)],
                              "Rename", r)
                       EXCEPT !.kids = IF r.errno # OK THEN @
                                       ELSE RenameKids(@, r.fs, n, oldName,
                                                       newNode, newName)]
          /\ UNCHANGED <<busVars, rpcVars, xferVars>>

\* the client's tree holds the file x the server has, and a directory d the
\* server does not have
InitCli ==
    /\ srvFs = InitSrvFs
    /\ cliFs = InitCliFs
               @@ (Join(<<cliRealpath, <<"x">> >>) :> FileEntry(2, <<1>>))
               @@ (Join(<<cliRealpath, <<"d">> >>) :> DirEntry(3))
    /\ InitEvents
    /\ rpc = NoCall
    /\ userDb = Users
    /\ xfer = IdleXfer
    /\ cli = IdleCli

NextCli ==
    \/ CliMkdir
    \/ CliRmdir
    \/ CliUnlink
    \/ CliRename
    \/ CliCreate
    \/ CliWrite
    \/ CliRelease
    \/ \E g \in cli.mirrors : MirrorCall(g)
    \/ \E g \in cli.mirrors : MirrorFail(g)

SpecCli == InitCli /\ [][NextCli]_vars

\* the errno of the local operation alone: what the system calls of the
\* operation return on the local tree it found
LocalErrno(o) ==
    CASE o.op = "Mkdir" -> SysMkdirAll(o.pre, o.arg.path, 493).err
      [] o.op = "Rmdir" -> SysRmdir(o.pre, o.arg.path).err
      [] o.op = "Unlink" -> SysRemove(o.pre, o.arg.path).err
      [] o.op = "Rename" -> SysRename(o.pre, o.arg.path, o.arg.newpath).err
      [] o.op = "Create" ->
             IF SysOpenCreate(o.pre, o.arg.path, o.arg.flags.excl,
                              o.arg.flags.trunc, 420).err # OK
             THEN SysOpenCreate(o.pre, o.arg.path, o.arg.flags.excl,
                                o.arg.flags.trunc, 420).err
             ELSE o.arg.dupErr
      [] o.op = "Write" -> IF o.arg.fd = -1 THEN EBADF ELSE OK
      [] o.op = "Lookup" -> SysLstat(o.pre, o.arg.path)

\* C10 -- for every mutating client operation (Mkdir, Rmdir, Unlink, Rename,
\* Create, handle Write) the result returned to the mount layer is the errno
\* of the local operation, whether its mirror RPC has succeeded, has failed or
\* has not completed; a local failure is always returned.
C10_LocalResultOnly ==
    \A i \in 1..Len(cli.ops) : cli.ops[i].result = LocalErrno(cli.ops[i])

\* C10 witness: an operation succeeded locally, its mirror RPC failed at the
\* server, and another operation failed locally
C10_Witness ==
    /\ \E i \in 1..Len(cli.ops) :
          /\ cli.ops[i].result = OK
          /\ \E l \in cli.log : l.id = i /\ l.code \notin {"OK", "Unavailable"}
    /\ \E j \in 1..Len(cli.ops) : cli.ops[j].result # OK

\* the client's mount with the OnAdd hook: the mount layer adds nodes to the
\* tree while it issues operations
NextHook ==
    \/ CliOnAddCall
    \/ CliOnAddReply
    \/ CliOnAddFail
    \/ CliOnAddDownload
    \/ CliOnAddReturn
    \/ CliMkdir
    \/ CliRmdir
    \/ CliUnlink
    \/ CliCreate
    \/ \E g \in cli.mirrors : MirrorCall(g)
    \/ \E g \in cli.mirrors : MirrorFail(g)

SpecHook == InitCli /\ [][NextHook]_vars

\* C11 -- no client node or file-handle operation, the OnAdd hook included,
\* waits for a remote RPC to complete before it returns (authentication at
\* mount time and the check before a Read apart): no thread of the mount
\* layer is ever held inside an operation until an RPC is answered.
C11_NoWaitForRpc == cli.hook.pc \notin {"rpc", "wait"}

\* C12 -- a handle Write that succeeds locally issues exactly one remote
\* Write, which carries the root-relative path, the offset and the bytes of
\* the local write; a Write that fails locally issues none.
C12_RemoteWriteSameBytes ==
    \A i \in 1..Len(cli.ops) :
        cli.ops[i].op = "Write" =>
            LET o == cli.ops[i]
                pending == { g \in cli.mirrors : g.id = i }
                over == { l \in cli.log : l.id = i }
                req == [Path |-> cliRelativePath(o.arg.path),
                        Offset |-> o.arg.off, Data |-> o.arg.data]
            IN  /\ o.result # OK => pending = {} /\ over = {}
                /\ o.result = OK =>
                      /\ Cardinality(pending) + Cardinality(over) = 1
                      /\ \A g \in pending : g.method = Methods.Write /\ g.req = req
                      /\ \A m \in cli.sent :
                             m.id = i => m.method = Methods.Write /\ m.req = req

(***************************************************************************)
(* a Read on an open handle of the client                                  *)
(***************************************************************************)

\* the client has x, which the server has too, and n, which it has not, and
\* holds an open handle on each
InitRead ==
    /\ \E d \in Contents :
          srvFs = [InitSrvFs EXCEPT
                     ![HostPath(FullPath(<<"/", "a", "/", "b", "0">>, <<"/", "x">>))].data = d]
    /\ \E l \in Contents :
          cliFs = InitCliFs @@ (LocalPath(<<"/", "x">>) :> FileEntry(2, l))
                            @@ (LocalPath(<<"/", "n">>) :> FileEntry(3, <<1>>))
    /\ InitEvents
    /\ rpc = NoCall
    /\ userDb = Users
    /\ xfer = IdleXfer
    /\ cli = [IdleCli EXCEPT !.handles =
                 << [path |-> LocalPath(<<"/", "x">>), fd |-> 3, ino |-> 2],
                    [path |-> LocalPath(<<"/", "n">>), fd |-> 4, ino |-> 3] >>]

NextRead ==
    \/ ReadCall
    \/ DownloadServe
    \/ DownloadSend
    \/ DownloadRecv
    \/ Disconnect
    \/ ReadReturn

SpecRead == InitRead /\ [][NextRead]_vars

\* C13 -- every handle Read runs the download-if-stale check for the
\* handle's path to its end before it reads the local descriptor, and a
\* failure of the check never fails the Read: the Read returns OK with the
\* bytes the local file holds after the check.
C13_ReadAfterSync ==
    /\ cli.read.pc # "idle" =>
           xfer.path = cliRelativePath(cli.handles[cli.read.h].path)
    /\ cli.read.pc = "done" =>
           /\ xfer.cpc = "done"
           /\ cli.read.sync = xfer.result
           /\ cli.read.result = OK
           /\ cli.read.data = cliFs[cli.handles[cli.read.h].path].data

\* C13 witness: a Read has returned OK after a download that failed
C13_Witness ==
    /\ cli.read.pc = "done"
    /\ cli.read.sync \notin {"nil", "none"}
    /\ cli.read.result = OK

(***************************************************************************)
(* the event bus: registry, filter, order of mutation and publication      *)
(***************************************************************************)

\* the streams whose channel the registry holds
Registered ==
    { c \in StreamIds :
        \E r \in DOMAIN observers :
            \E i \in 1..Len(observers[r]) : observers[r][i] = c }

\* C14 -- registry cleanup: once ObserveFileChanges has returned for a
\* subscriber whose stream context was cancelled, the registry holds no
\* channel of that terminated stream.
C14_RegistryCleanup ==
    \A c \in StreamIds : streams[c].pc = "returned" => c \notin Registered

\* C16 -- notifyObservers never enqueues on the broadcast queue an event
\* whose path base name, or whose rename-target base name, begins with a dot.
C16_NoHiddenNames ==
    \A e \in 1..Len(evHeap) :
        /\ Base(evHeap[e].pubPath)[1] # "."
        /\ Base(evHeap[e].pubNewPath)[1] # "."

\* C16 witness: the directory .t was renamed to a visible name, its
\* notifyObservers goroutine has run and nothing was enqueued
C16_Witness ==
    /\ lastOp.op = "Rename" /\ lastOp.err = OK
    /\ Base(lastOp.path) = <<".", "t">>
    /\ Base(lastOp.newpath)[1] # "."
    /\ notifying = {}
    /\ evHeap = <<>>

\* the store holds what the operation that has just returned announces
Committed(o, fsys) ==
    CASE o.op = "Mkdir" -> o.path \in DOMAIN fsys /\ fsys[o.path].kind = "dir"
      [] o.op = "Create" -> o.path \in DOMAIN fsys /\ fsys[o.path].kind = "file"
      [] o.op = "Rmdir" -> o.path \notin DOMAIN fsys
      [] o.op = "Rename" -> o.newpath \in DOMAIN fsys
      [] OTHER -> FALSE

\* C17 -- an event is published only after the local mutation has
\* committed: a node operation starts notifyObservers only when it returns
\* without error and the store already holds its mutation, and an event is
\* enqueued only by a goroutine started that way.
C17_PublishAfterCommit ==
    [][ /\ (notifying' \ notifying # {}) =>
             /\ lastOp'.err = OK
             /\ Committed(lastOp', srvFs')
             /\ \A g \in notifying' \ notifying : g.id = lastOp'.seq
        /\ Len(evHeap') > Len(evHeap) =>
             \E g \in notifying \ notifying' :
                 /\ g.id = evHeap'[Len(evHeap')].op
                 /\ g.id <= lastOp.seq ]_vars

\* C17 witness: a Rename has moved x, and its event is on the heap
C17_Witness ==
    /\ lastOp.op = "Rename" /\ lastOp.err = OK
    /\ lastOp.path \notin DOMAIN srvFs /\ lastOp.newpath \in DOMAIN srvFs
    /\ \E e \in 1..Len(evHeap) : evHeap[e].op = lastOp.seq


(***************************************************************************)
(* C20: Rename followed by Lookup                                          *)
(***************************************************************************)

\* the client's mount with renames, removals and new directories, each
\* followed by lookups
NextRename ==
    \/ CliRename
    \/ CliLookup
    \/ CliMkdir
    \/ CliUnlink
    \/ \E g \in cli.mirrors : MirrorCall(g)
    \/ \E g \in cli.mirrors : MirrorFail(g)

SpecRename == InitCli /\ [][NextRename]_vars

\* the two names of a Rename are names of one entry already: the same path,
\* or two links to one inode; rename(2) then succeeds and changes nothing
SameEntry(o) ==
    /\ o.arg.newpath \in DOMAIN o.pre
    /\ o.pre[o.arg.newpath].ino = o.pre[o.arg.path].ino

\* the Lookup that follows the Rename at position i of the client's log
\* answers as the claim says: the old name is gone, the new name has the
\* inode number and attributes the old name had
LookupAfterRename(i) ==
    LET o == cli.ops[i]
        l == cli.ops[i + 1]
    IN  /\ l.arg.path = o.arg.path => l.result = ENOENT
        /\ l.arg.path = o.arg.newpath =>
              /\ l.result = OK
              /\ l.out = o.pre[o.arg.path]

RenameThenLookup(i) ==
    /\ i + 1 <= Len(cli.ops)
    /\ cli.ops[i].op = "Rename"
    /\ cli.ops[i].result = OK
    /\ cli.ops[i + 1].op = "Lookup"

ReplayEntries ==
    (LocalPath(<<"/", "x">>) :> FileEntry(2, <<1>>))
    @@ (LocalPath(<<"/", "d">>) :> DirEntry(3))
    @@ (LocalPath(<<"/", "d", "/", "f">>) :> FileEntry(4, <<2>>))
    @@ (LocalPath(<<"/", "y">>) :> FileEntry(5, <<1, 2>>))

ReplayTrees ==
    { InitCliFs @@ [p \in S |-> ReplayEntries[p]] :
        S \in { T \in SUBSET DOMAIN ReplayEntries :
                  LocalPath(<<"/", "d", "/", "f">>) \in T
                     => LocalPath(<<"/", "d">>) \in T } }

ReplayPaths == { <<"/", "x">>, <<"/", "d">>, <<"/", "d", "/", "f">>,
                 <<"/", "n", "/", "g">> }

\* add, delete and rename events as the stream can carry them
ReplayEvents ==
    [Event : {"ADD_FILE"}, Path : ReplayPaths, NewPath : {<<>>},
     Mode : {FileMode(TRUE, 493), FileMode(FALSE, 420)}]
    \cup [Event : {"DELETE_FILE"}, Path : ReplayPaths, NewPath : {<<>>},
          Mode : {FileMode(FALSE, 0)}]
    \cup [Event : {"RENAME_FILE"}, Path : ReplayPaths,
          NewPath : { <<"/", "y">>, <<"/", "x">>, <<"/", "d", "/", "y">> },
          Mode : {FileMode(FALSE, 0)}]

\* the observer's stream has carried one event twice; nothing was received
InitReplay ==
    /\ srvFs = InitSrvFs
    /\ cliFs \in ReplayTrees
    /\ lastOp = NoOp
    /\ notifying = {}
    /\ evHeap = <<>>
    /\ broadcast = <<>>
    /\ observers = <<>>
    /\ chans = [c \in StreamIds |-> <<>>]
    /\ \E e \in ReplayEvents :
          streams = [c \in StreamIds |->
                       IF c = ObsStream
                       THEN [IdleStream EXCEPT
                               !.pc = "loop",
                               !.sent = << [id |-> 1, Event |-> e.Event,
                                            Path |-> e.Path, NewPath |-> e.NewPath,
                                            Mode |-> e.Mode],
                                           [id |-> 1, Event |-> e.Event,
                                            Path |-> e.Path, NewPath |-> e.NewPath,
                                            Mode |-> e.Mode] >>]
                       ELSE IdleStream]
    /\ mainObs = [pc |-> "recv", ev |-> 0, clients |-> <<>>]
    /\ delivering = {}
    /\ srvCtxDone = FALSE
    /\ due = {}
    /\ placed = {}
    /\ rpc = NoCall
    /\ userDb = Users
    /\ xfer = IdleXfer
    /\ cli = IdleCli

NextReplay ==
    \/ RemoteObserverRecv
    \/ \E g \in cli.obs.handling : HandleFileEvent(g)

SpecReplay == InitReplay /\ [][NextReplay]_vars

\* C18: applying an add, delete or rename event a second time leaves the
\* local tree as the first application left it (so no existing file's
\* content changes), and the observer loop keeps running whatever the
\* handlers log
C18_IdempotentReplay ==
    /\ cli.obs.pc = "loop"
    /\ \A i, j \in 1..Len(cli.obs.applied) :
          (/\ i < j
           /\ cli.obs.applied[i].ev = cli.obs.applied[j].ev
           /\ cli.obs.applied[j].pre = cli.obs.applied[i].post)
          => cli.obs.applied[j].post = cli.obs.applied[i].post

\* C18 witness: the first application changed the tree and the second one
\* failed and was only logged
C18_Witness ==
    /\ Len(cli.obs.applied) = 2
    /\ cli.obs.applied[1].post # cli.obs.applied[1].pre
    /\ cli.obs.applied[2].err # OK
    /\ cli.obs.applied[2].post = cli.obs.applied[1].post
    /\ cli.obs.pc = "loop"


(***************************************************************************)
(* C15: a subscriber whose buffer is full and never drained                *)
(***************************************************************************)

\* the subscriber that stopped receiving, and the one that goes on
SlowStream == 1
LiveStream == 2

\* the root both subscribers are registered at
SlowRoot == <<"/", "a", "/", "b", "0">>

\* the events published before the scenario starts: renames of a file of the
\* root; the handler of the live stream has trimmed and sent the first k
SlowHistory(k) ==
    [e \in 1..ClientChanCap |->
        [Event |-> "RENAME_FILE",
         Path |-> IF e <= k THEN <<"/", "x">> ELSE SlowRoot \o <<"/", "x">>,
         NewPath |-> IF e <= k THEN <<"/", "y">> ELSE SlowRoot \o <<"/", "y">>,
         Mode |-> FileMode(FALSE, 0),
         pubPath |-> SlowRoot \o <<"/", "x">>, pubNewPath |-> SlowRoot \o <<"/", "y">>,
         op |-> 0]]

\* the events published during the scenario
SlowEvIds == (ClientChanCap + 1)..(ClientChanCap + MaxOps)

\* ClientChanCap events were delivered to both subscribers; the live one
\* has sent the first k of them, the slow one has taken none: its channel is
\* full
InitSlow ==
    /\ srvFs = InitSrvFs
    /\ lastOp = NoOp
    /\ notifying = {}
    /\ broadcast = <<>>
    /\ observers = (SlowRoot :> <<SlowStream, LiveStream>>)
    /\ \E k \in 0..ClientChanCap :
          /\ evHeap = SlowHistory(k)
          /\ chans = [c \in StreamIds |->
                        IF c = SlowStream THEN [e \in 1..ClientChanCap |-> e]
                        ELSE IF c = LiveStream
                        THEN [i \in 1..(ClientChanCap - k) |-> k + i]
                        ELSE <<>>]
          /\ streams = [c \in StreamIds |->
                          IF c = SlowStream
                          THEN [IdleStream EXCEPT !.pc = "loop", !.root = SlowRoot]
                          ELSE IF c = LiveStream
                          THEN [IdleStream EXCEPT
                                  !.pc = "loop", !.root = SlowRoot,
                                  !.sent = [e \in 1..k |->
                                              [id |-> e,
                                               Event |-> SlowHistory(k)[e].Event,
                                               Path |-> SlowHistory(k)[e].Path,
                                               NewPath |-> SlowHistory(k)[e].NewPath,
                                               Mode |-> SlowHistory(k)[e].Mode]]]
                          ELSE IdleStream]
    /\ mainObs = [pc |-> "recv", ev |-> 0, clients |-> <<>>]
    /\ delivering = {}
    /\ srvCtxDone = FALSE
    /\ due = (1..ClientChanCap) \X {SlowStream, LiveStream}
    /\ placed = (1..ClientChanCap) \X {SlowStream, LiveStream}
    /\ rpc = NoCall
    /\ userDb = Users
    /\ xfer = IdleXfer
    /\ cliFs = InitCliFs
    /\ cli = IdleCli

\* the server goes on running; the slow subscriber's handler never takes
\* anything from its channel
NextSlow ==
    \/ Mkdir
    \/ Rmdir
    \/ Unlink
    \/ Rename
    \/ Create
    \/ \E g \in notifying : notifyObservers(g)
    \/ MainObserverRecv
    \/ MainObserverFanout
    \/ \E d \in delivering : Deliver(d)
    \/ ObserveRecv(LiveStream)
    \/ ObserveSend(LiveStream)

FairnessSlow ==
    /\ WF_vars(MainObserverRecv)
    /\ WF_vars(MainObserverFanout)
    /\ \A e \in SlowEvIds : WF_vars(Deliver([ev |-> e, client |-> LiveStream]))
    /\ WF_vars(ObserveRecv(LiveStream))
    /\ WF_vars(ObserveSend(LiveStream))

SpecSlow == InitSlow /\ [][NextSlow]_vars /\ FairnessSlow

OnBroadcast(e) == \E i \in 1..Len(broadcast) : broadcast[i] = e

\* C15: with the slow subscriber's channel full and never drained, the
\* dispatcher's fan-out step is never blocked, every later event on the
\* broadcast queue is dequeued, and it is placed on the channel of every
\* other subscriber it is due to
C15_SlowSubscriberNoStall ==
    /\ [](mainObs.pc = "fanout" => ENABLED MainObserverFanout)
    /\ \A e \in SlowEvIds :
          /\ OnBroadcast(e) ~> ~OnBroadcast(e)
          /\ \A c \in StreamIds \ {SlowStream} :
                (<<e, c>> \in due) ~> (<<e, c>> \in placed)

\* C15 witness: a later event is on the live subscriber's channel history
\* while the goroutine delivering it to the slow subscriber is blocked on the
\* full channel
C15_Witness ==
    \E e \in SlowEvIds :
        /\ <<e, LiveStream>> \in placed
        /\ [ev |-> e, client |-> SlowStream] \in delivering
        /\ Len(chans[SlowStream]) = ClientChanCap
        /\ mainObs.pc = "recv"


(***************************************************************************)
(* C19: a directory and a file in it are created on the server             *)
(***************************************************************************)

\* the directory of the server's mount the scenario works in, the names X and
\* f.txt, and the content "hi"
ScenarioDir == Join(<<realpath, <<"a">>, <<"b", "0">> >>)
ScenarioX == <<"X">>
ScenarioF == <<"f">>
Hi == <<1, 2>>

ScenarioXPath == Join(<<ScenarioDir, ScenarioX>>)
ScenarioFPath == Join(<<ScenarioDir, ScenarioX, ScenarioF>>)
ScenarioLocalFile == LocalPath(<<"/", "X", "/", "f">>)

\* Node.Mkdir of X
ScenarioMkdir ==
    /\ ScenarioXPath \notin DOMAIN srvFs
    /\ NodeReturn("Mkdir", NodeMkdir(srvFs, ScenarioDir, ScenarioX, 493),
                  ScenarioXPath, <<>>)

\* Node.Create of X/f.txt
ScenarioCreate ==
    /\ ScenarioXPath \in DOMAIN srvFs
    /\ ScenarioFPath \notin DOMAIN srvFs
    /\ NodeReturn("Create",
                  NodeCreate(srvFs, ScenarioXPath, ScenarioF, FALSE, FALSE),
                  ScenarioFPath, <<>>)

\* the write of "hi" through the handle Create returned (a loopback file:
\* pwrite on the descriptor, nothing else)
ScenarioWrite ==
    /\ ScenarioFPath \in DOMAIN srvFs
    /\ srvFs[ScenarioFPath].data # Hi
    /\ srvFs' = [srvFs EXCEPT ![ScenarioFPath].data = WriteAt(@, Hi, 0)]
    /\ UNCHANGED <<lastOp, notifying, evHeap, broadcast, observers, chans,
                   streams, mainObs, delivering, srvCtxDone, due, placed,
                   rpcVars, xferVars, cliVars>>

\* the client's observer is connected: its stream is registered at the root
\* of the client's user, and the local tree has the file x the server has
InitScenario ==
    /\ srvFs = InitSrvFs
    /\ cliFs = InitCliFs @@ (LocalPath(<<"/", "x">>) :> FileEntry(2, <<>>))
    /\ lastOp = NoOp
    /\ notifying = {}
    /\ evHeap = <<>>
    /\ broadcast = <<>>
    /\ observers = (SlowRoot :> <<ObsStream>>)
    /\ chans = [c \in StreamIds |-> <<>>]
    /\ streams = [c \in StreamIds |->
                    IF c = ObsStream
                    THEN [IdleStream EXCEPT !.pc = "loop", !.root = SlowRoot]
                    ELSE IdleStream]
    /\ mainObs = [pc |-> "recv", ev |-> 0, clients |-> <<>>]
    /\ delivering = {}
    /\ srvCtxDone = FALSE
    /\ due = {}
    /\ placed = {}
    /\ rpc = NoCall
    /\ userDb = Users
    /\ xfer = IdleXfer
    /\ cli = IdleCli

\* the scenario, with renames of other entries going on beside it
NextScenario ==
    \/ ScenarioMkdir
    \/ ScenarioCreate
    \/ ScenarioWrite
    \/ Rename
    \/ \E g \in notifying : notifyObservers(g)
    \/ MainObserverRecv
    \/ MainObserverFanout
    \/ \E d \in delivering : Deliver(d)
    \/ ObserveRecv(ObsStream)
    \/ ObserveSend(ObsStream)
    \/ RemoteObserverRecv
    \/ \E g \in cli.obs.handling : HandleFileEvent(g)

SpecScenario == InitScenario /\ [][NextScenario]_vars

\* the scenario has run to its end: X/f.txt holds "hi" on the server, no
\* further operation is due, and every goroutine and queue between the
\* server's node operations and the client's local tree has finished or is
\* empty
ScenarioQuiescent ==
    /\ ScenarioFPath \in DOMAIN srvFs
    /\ srvFs[ScenarioFPath].data = Hi
    /\ lastOp.seq >= MaxOps
    /\ notifying = {}
    /\ broadcast = <<>>
    /\ mainObs.pc = "recv"
    /\ delivering = {}
    /\ chans[ObsStream] = <<>>
    /\ streams[ObsStream].pc = "loop"
    /\ cli.obs.got = Len(streams[ObsStream].sent)
    /\ cli.obs.handling = {}

\* C19: once X and X/f.txt holding "hi" are created on the server and
\* publication, fan-out and the client's event handling have all run to their
\* end, the connected observer has a local X/f.txt holding "hi"
C19_ObserverGetsFile ==
    ScenarioQuiescent =>
        /\ ScenarioLocalFile \in DOMAIN cliFs
        /\ cliFs[ScenarioLocalFile].data = Hi


(***************************************************************************)
(* C21: the child mapping after Rename                                     *)
(***************************************************************************)

\* the local tree has files x and y, a directory d and a file d/y; any of
\* them may have been looked up before, and is then registered
KidsTree ==
    InitCliFs
    @@ (Join(<<cliRealpath, <<"x">> >>) :> FileEntry(2, <<1>>))
    @@ (Join(<<cliRealpath, <<"y">> >>) :> FileEntry(3, <<2>>))
    @@ (Join(<<cliRealpath, <<"d">> >>) :> DirEntry(4))
    @@ (Join(<<cliRealpath, <<"d">>, <<"y">> >>) :> FileEntry(5, <<>>))

KidsOf(fsys) ==
    { [parent |-> Dir(p), name |-> Base(p), ino |-> fsys[p].ino, path |-> p] :
        p \in DOMAIN fsys \ {cliRealpath} }

InitKids ==
    /\ srvFs = InitSrvFs
    /\ cliFs = KidsTree
    /\ InitEvents
    /\ rpc = NoCall
    /\ userDb = Users
    /\ xfer = IdleXfer
    /\ \E looked \in SUBSET KidsOf(KidsTree) : cli = [IdleCli EXCEPT !.kids = looked]

NextKids ==
    \/ KidsLookup
    \/ KidsRename
    \/ \E g \in cli.mirrors : MirrorCall(g)
    \/ \E g \in cli.mirrors : MirrorFail(g)

SpecKids == InitKids /\ [][NextKids]_vars

\* C21: when the operation that returned last is a successful Rename (of two
\* names that did not name one entry already), the old parent has no child
\* registered under oldName and the new parent has the moved entry, with its
\* inode number, registered under newName
C21_RenameMigratesChild ==
    LET i == Len(cli.ops)
        o == cli.ops[i]
    IN  (i > 0 /\ o.op = "Rename" /\ o.result = OK /\ ~SameEntry(o)) =>
           /\ GetChild(cli.kids, Dir(o.arg.path), Base(o.arg.path)) = {}
           /\ \E k \in GetChild(cli.kids, Dir(o.arg.newpath), Base(o.arg.newpath)) :
                 k.ino = o.pre[o.arg.path].ino

(***************************************************************************)
(* Setattr on one file                                                     *)
(***************************************************************************)

InitSetattr ==
    /\ srvFs = InitSrvFs
    /\ cliFs = InitCliFs
    /\ InitEvents
    /\ rpc = NoCall
    /\ userDb = Users
    /\ xfer = IdleXfer
    /\ \E a \in SetattrFiles : cli = [IdleCli EXCEPT !.attr.cur = a]

NextSetattr == SetattrServer \/ SetattrClient \/ SetattrHandle

SpecSetattr == InitSetattr /\ [][NextSetattr]_vars

\* C22: after a Setattr that returned OK, every attribute whose field the
\* request carries has the requested value and every attribute whose field is
\* absent has the value it had before the call
C22_SetattrFrame ==
    cli.attr.impl # "none" =>
        \A f \in AttrFields :
            cli.attr.cur[f] = IF cli.attr.in[f].ok THEN cli.attr.in[f].v
                              ELSE cli.attr.pre[f]

(***************************************************************************)
(* concurrent calls on one FileHandle                                      *)
(***************************************************************************)

InitHandle ==
    /\ srvFs = InitSrvFs
    /\ cliFs = InitCliFs
    /\ InitEvents
    /\ rpc = NoCall
    /\ userDb = Users
    /\ xfer = IdleXfer
    /\ cli = IdleCli

NextHandle ==
    \E t \in HandleThreads :
        \/ HandleCall(t)
        \/ HandleLock(t)
        \/ HandleSys(t)
        \/ HandleClear(t)
        \/ HandleUnlock(t)

SpecHandle == InitHandle /\ [][NextHandle]_vars

\* C23: a goroutine that is about to make a system call on the handle's
\* descriptor holds the handle's mutex, so none does while Release closes it
C23_FdUnderMutex ==
    \A t \in HandleThreads :
        cli.fh.thr[t].pc = "sys" =>
            /\ cli.fh.mu = t
            /\ \A u \in HandleThreads \ {t} :
                  ~(cli.fh.thr[u].pc = "sys" /\ cli.fh.thr[u].sys = "Close")

(***************************************************************************)
(* the end of the observation stream                                       *)
(***************************************************************************)

\* events of the history the client's observer has handled before the
\* scenario starts
ObsHandled == ClientChanCap - 2

\* the mount has been up for a while: the server's handler has sent the first
\* k events of the history, the rest wait in the stream's channel; the
\* client's observer has received and handled the first ObsHandled
InitObs ==
    /\ srvFs = InitSrvFs
    /\ lastOp = NoOp
    /\ notifying = {}
    /\ broadcast = <<>>
    /\ observers = (SlowRoot :> <<ObsStream>>)
    /\ \E k \in ObsHandled..ClientChanCap :
          /\ evHeap = SlowHistory(k)
          /\ chans = [c \in StreamIds |->
                        IF c = ObsStream
                        THEN [i \in 1..(ClientChanCap - k) |-> k + i]
                        ELSE <<>>]
          /\ streams = [c \in StreamIds |->
                          IF c = ObsStream
                          THEN [IdleStream EXCEPT
                                  !.pc = "loop", !.root = SlowRoot,
                                  !.sent = [e \in 1..k |->
                                              [id |-> e,
                                               Event |-> SlowHistory(k)[e].Event,
                                               Path |-> SlowHistory(k)[e].Path,
                                               NewPath |-> SlowHistory(k)[e].NewPath,
                                               Mode |-> SlowHistory(k)[e].Mode]]]
                          ELSE IdleStream]
    /\ mainObs = [pc |-> "recv", ev |-> 0, clients |-> <<>>]
    /\ delivering = {}
    /\ srvCtxDone = FALSE
    /\ due = (1..ClientChanCap) \X {ObsStream}
    /\ placed = (1..ClientChanCap) \X {ObsStream}
    /\ rpc = NoCall
    /\ userDb = Users
    /\ xfer = IdleXfer
    /\ cliFs = InitCliFs
    /\ cli = [IdleCli EXCEPT !.obs.got = ObsHandled]

NextObs ==
    \/ ObserveRecv(ObsStream)
    \/ ObserveSend(ObsStream)
    \/ ObserveDone(ObsStream)
    \/ CancelStream(ObsStream)
    \/ RemoteObserverRecv
    \/ \E g \in cli.obs.handling : HandleFileEvent(g)
    \/ RemoteObserverEnd
    \/ ObserveAgain
    \/ CliMkdir

\* the goroutine runs when it can: a Recv that has failed returns
FairnessObs == WF_vars(RemoteObserverEnd)

SpecObs == InitObs /\ [][NextObs]_vars /\ FairnessObs

\* C24: once the observation stream is over the Remote Observer goroutine
\* ends, and a goroutine that has ended stays ended
C24_ObserverEnds ==
    /\ [](StreamOver(ObsStream) => <>(cli.obs.pc = "ended"))
    /\ [][cli.obs.pc = "ended" => cli.obs.pc' = "ended"]_vars

\* the stream ended with a clean EOF, the goroutine ended, the mount served
\* an operation afterwards and a fresh observation stream is open
C24_Witness ==
    /\ cli.obs.pc = "ended"
    /\ cli.obs.cause = "EOF"
    /\ Len(cli.ops) > cli.obs.opsAtEnd
    /\ cli.ops[Len(cli.ops)].result = OK
    /\ streams[ObsStream + 1].pc = "loop"

(***************************************************************************)
(* the root a handler resolves for its caller                              *)
(***************************************************************************)

InitRoot ==
    /\ srvFs \in RootTrees
    /\ InitEvents
    /\ InitRest

NextRoot == RootMkdir \/ RootGetattr

SpecRoot == InitRoot /\ [][NextRoot]_vars

\* <realpath>/<org>/<dept> on the host, a symbolic link in its last place
\* followed: what syscall.Stat looks at
RootTarget(c) ==
    Follow(c.pre, realpath \o <<"/">> \o c.ctx.user.OrgName
                           \o <<"/">> \o c.ctx.user.DeptName)

\* nothing is there, and nothing above it is a file
RootMissing(c) ==
    /\ RootTarget(c) \notin DOMAIN c.pre
    /\ \A q \in DOMAIN c.pre :
          HasPrefix(RootTarget(c), q \o <<"/">>) => c.pre[q].kind = "dir"

InitSparse ==
    /\ \E d \in [1..5 -> {1, 2}] :
          /\ srvFs = [InitSrvFs EXCEPT
                        ![HostPath(FullPath(<<"/", "a", "/", "b", "0">>, <<"/", "x">>))].data = d]
          /\ cliFs = InitCliFs @@ (SparsePath :> FileEntry(2, d))
    /\ InitEvents
    /\ rpc = NoCall
    /\ userDb = Users
    /\ xfer = IdleXfer
    /\ cli = [IdleCli EXCEPT !.handles = <<SparseHandle>>]

NextSparse ==
    \/ SparseWrite
    \/ \E g \in cli.mirrors : MirrorCall(g)
    \/ \E g \in cli.mirrors : MirrorFail(g)
    \/ SparseRead

SpecSparse == InitSparse /\ [][NextSparse]_vars

\* C26: the Read after the Write returns 13 bytes: the 5 bytes the file had,
\* 5 zero bytes, then "ABC"
C26_SparseWrite ==
    cli.read.pc = "done" =>
        cli.read.data = cli.ops[1].pre[SparsePath].data \o <<0, 0, 0, 0, 0>> \o ABC

(***************************************************************************)
(* Create, Write at offset 0, Getattr                                      *)
(***************************************************************************)

\* the client's root holds a file x of any content; the name n is free
InitSize ==
    /\ srvFs = InitSrvFs
    /\ \E l \in Contents :
          cliFs = InitCliFs @@ (LocalPath(<<"/", "x">>) :> FileEntry(2, l))
    /\ InitEvents
    /\ rpc = NoCall
    /\ userDb = Users
    /\ xfer = IdleXfer
    /\ cli = IdleCli

NextSize == SizeCreate \/ SizeWrite \/ SizeGetattr

SpecSize == InitSize /\ [][NextSize]_vars

\* Create(p), Write(p, 0, b) and Getattr(p) have returned OK in this order
SizeRoundTrip ==
    /\ Len(cli.ops) = 3
    /\ cli.ops[3].op = "Getattr"
    /\ cli.ops[3].result = OK

SizeKept ==
    LET o == cli.ops[1]
    IN  IF o.arg.path \in DOMAIN o.pre /\ ~o.arg.flags.trunc
        THEN Len(o.pre[o.arg.path].data) ELSE 0

NextErr == GrpcErrorReturn \/ RootMkdir

SpecErr == InitRoot /\ [][NextErr]_vars

\* Mkdir was called by a user whose root resolved, for a path that exists
MkdirOnExisting ==
    /\ cli.root.called
    /\ cli.root.method = Methods.Mkdir
    /\ cli.root.ud.err = OK
    /\ HostPath(Join(<<mountpoint, cli.root.ud.dir, cli.root.req.Path>>))
           \in DOMAIN cli.root.pre

\* the RPC answered AlreadyExists and the store is as it was
MkdirRefused ==
    MkdirOnExisting => (cli.root.code = "AlreadyExists" /\ srvFs = cli.root.pre)

InitMem ==
    /\ srvFs = InitSrvFs
    /\ cliFs = InitCliFs
    /\ InitEvents
    /\ rpc = NoCall
    /\ userDb = Users
    /\ xfer = IdleXfer
    /\ \E f \in {<<>>, <<1, 2>>}, h \in Contents :
          cli = [IdleCli EXCEPT !.mem.fs = MemTree(f, h)]

NextMem == MemWriteCall \/ MemRenameCall

SpecMem == InitMem /\ [][NextMem]_vars

\* C29: a Write on a file node succeeds for every offset; afterwards the file
\* has max(old size, offset + len(data)) bytes: data at the offset, zeros in
\* a gap behind the old end, and its old bytes everywhere else
C29_WritePastEnd ==
    LET o == cli.mem.last
        old == o.pre.nodes[o.n].data
        new == cli.mem.fs.nodes[o.n].data
        end == o.offset + Len(o.data)
    IN  (o.op = "Write" /\ ~o.pre.nodes[o.n].isDir) =>
           /\ o.err = OK
           /\ Len(new) = IF Len(old) > end THEN Len(old) ELSE end
           /\ \A i \in 1..Len(new) :
                 new[i] = IF i > o.offset /\ i <= end THEN o.data[i - o.offset]
                          ELSE IF i <= Len(old) THEN old[i]
                          ELSE 0

\* C30: after a Rename that succeeded newDir has a child named newName that
\* is the node n had under oldName, with its data and children; n has no
\* child named oldName, and no other node's name, data or children changed;
\* a Rename of a name n does not have returns ENOENT and changes nothing
C30_RenameMovesNode ==
    LET o == cli.mem.last
        pre == o.pre
        post == cli.mem.fs
    IN  o.op = "Rename" =>
           IF o.oldName \notin DOMAIN Children(pre, o.n)
           THEN o.err = ENOENT /\ post = pre
           ELSE LET moved == Children(pre, o.n)[o.oldName]
                IN  /\ o.err = OK
                    /\ MemLookup(post, o.newDir, o.newName) = {moved}
                    /\ post.nodes[moved].data = pre.nodes[moved].data
                    /\ Children(post, moved) = Children(pre, moved)
                    /\ (o.n # o.newDir \/ o.oldName # o.newName) =>
                           MemLookup(post, o.n, o.oldName) = {}
                    /\ \A x \in DOMAIN pre.nodes \ {moved} :
                           post.nodes[x].name = pre.nodes[x].name
                    /\ \A x \in DOMAIN pre.nodes \ {o.n, o.newDir} :
                           Children(post, x) = Children(pre, x)

(***************************************************************************)
(* C31: two events on the broadcast queue and the order they arrive in     *)
(***************************************************************************)

\* an event as notifyObservers builds it for a path below SlowRoot
OrderEvent(event, name, newName, mode) ==
    [Event |-> event,
     Path |-> SlowRoot \o <<"/">> \o name,
     NewPath |-> IF newName = <<>> THEN <<>> ELSE SlowRoot \o <<"/">> \o newName,
     Mode |-> mode,
     pubPath |-> SlowRoot \o <<"/">> \o name,
     pubNewPath |-> IF newName = <<>> THEN <<>> ELSE SlowRoot \o <<"/">> \o newName,
     op |-> 0]

\* the mutations the two events come from
OrderEvents ==
    { OrderEvent("ADD_FILE", <<"d">>, <<>>, FileMode(TRUE, 493)),
      OrderEvent("DELETE_FILE", <<"d">>, <<>>, FileMode(FALSE, 0)),
      OrderEvent("RENAME_FILE", <<"x">>, <<"y">>, FileMode(FALSE, 0)),
      OrderEvent("ADD_FILE", <<"y">>, <<>>, FileMode(FALSE, 420)) }

\* two events were published, e1 then e2, and wait on the broadcast channel;
\* the client's stream and a second one are registered at the same root
InitOrder ==
    /\ srvFs = InitSrvFs
    /\ lastOp = NoOp
    /\ notifying = {}
    /\ \E e1 \in OrderEvents, e2 \in OrderEvents : evHeap = <<e1, e2>>
    /\ broadcast = <<1, 2>>
    /\ observers = (SlowRoot :> <<ObsStream, LiveStream>>)
    /\ chans = [c \in StreamIds |-> <<>>]
    /\ streams = [c \in StreamIds |->
                    IF c \in {ObsStream, LiveStream}
                    THEN [IdleStream EXCEPT !.pc = "loop", !.root = SlowRoot]
                    ELSE IdleStream]
    /\ mainObs = [pc |-> "recv", ev |-> 0, clients |-> <<>>]
    /\ delivering = {}
    /\ srvCtxDone = FALSE
    /\ due = {}
    /\ placed = {}
    /\ rpc = NoCall
    /\ userDb = Users
    /\ xfer = IdleXfer
    /\ cliFs = InitCliFs @@ (Join(<<cliRealpath, <<"x">> >>) :> FileEntry(2, <<1>>))
    /\ cli = IdleCli

NextOrder ==
    \/ MainObserverRecv
    \/ MainObserverFanout
    \/ \E d \in delivering : Deliver(d)
    \/ \E c \in StreamIds : ObserveRecv(c)
    \/ \E c \in StreamIds : ObserveSend(c)
    \/ RemoteObserverRecv
    \/ \E g \in cli.obs.handling : HandleFileEvent(g)

SpecOrder == InitOrder /\ [][NextOrder]_vars

\* C31: of two events published one after the other to the same subscriber,
\* the subscriber's stream sends the first before the second and the client
\* observer applies the first before the second
C31_DispatchOrder ==
    /\ \A c \in StreamIds : \A i, j \in 1..Len(streams[c].sent) :
          i < j => streams[c].sent[i].id < streams[c].sent[j].id
    /\ \A i, j \in 1..Len(cli.obs.applied) :
          i < j => cli.obs.applied[i].ev.id < cli.obs.applied[j].ev.id

(***************************************************************************)
(* C32: what the hidden-file filter of notifyObservers lets through        *)
(***************************************************************************)

\* a name of the mutation begins with a dot: the base name of its path, or of
\* its new path when it has one
DotName(path, newpath) ==
    \/ HasPrefix(Base(relativePath(path)), <<".">>)
    \/ newpath # <<>> /\ HasPrefix(Base(relativePath(newpath)), <<".">>)

\* C32: once the notifyObservers goroutine of a mutation has run, its event
\* is on record as put on the broadcast queue unless a name of the mutation
\* begins with a dot; this holds for add and delete events, whose new path is
\* empty
C32_FilterOnlyDotNames ==
    (/\ lastOp.op \in {"Mkdir", "Rmdir", "Create", "Rename"}
     /\ lastOp.err = OK
     /\ ~\E g \in notifying : g.id = lastOp.seq
     /\ ~DotName(lastOp.path, lastOp.newpath))
    => \E i \in 1..Len(evHeap) :
           /\ evHeap[i].op = lastOp.seq
           /\ evHeap[i].pubPath = relativePath(lastOp.path)

(***************************************************************************)
(* C33: a Read after a Write on the same handle                            *)
(***************************************************************************)

\* the bytes the Write carries
RywData == <<7>>

\* FileHandle.Write of RywData at an offset inside or at the end of the file
RywWrite ==
    /\ cli.ops = <<>>
    /\ \E off \in 0..Len(cliFs[SparsePath].data) :
          CliReturn("Write",
                    [NoArg EXCEPT !.path = SparsePath, !.fd = SparseHandle.fd,
                                  !.data = RywData, !.off = off],
                    ClientWrite(cliFs, SparseHandle, RywData, off))

\* the client and the server hold the same file x and the handle is open
InitRyw ==
    /\ \E d \in Contents :
          /\ srvFs = [InitSrvFs EXCEPT
                        ![HostPath(FullPath(<<"/", "a", "/", "b", "0">>, <<"/", "x">>))].data = d]
          /\ cliFs = InitCliFs @@ (SparsePath :> FileEntry(2, d))
    /\ InitEvents
    /\ rpc = NoCall
    /\ userDb = Users
    /\ xfer = IdleXfer
    /\ cli = [IdleCli EXCEPT !.handles = <<SparseHandle>>]

NextRyw ==
    \/ RywWrite
    \/ \E g \in cli.mirrors : MirrorCall(g)
    \/ \E g \in cli.mirrors : MirrorFail(g)
    \/ SparseRead

SpecRyw == InitRyw /\ [][NextRyw]_vars

\* C33: a Read issued after a Write that succeeded returns the written bytes
\* in the written range, whether the mirror goroutine of the Write has
\* reached the server, has failed or has not run yet
C33_ReadYourWrites ==
    (cli.read.pc = "done" /\ cli.ops[1].result = OK) =>
        \A i \in 1..Len(RywData) :
            /\ cli.ops[1].arg.off + i <= Len(cli.read.data)
            /\ cli.read.data[cli.ops[1].arg.off + i] = RywData[i]

(***************************************************************************)
(* C34: the order in which the mirror calls of one path reach the server   *)
(***************************************************************************)

\* the server's path for a path of the client's tree
ServerCopy(path) == HostPath(FullPath(SlowRoot, cliRelativePath(path)))

\* every mirror goroutine has returned and none failed to reach the server
MirrorsDelivered ==
    /\ cli.mirrors = {}
    /\ \A l \in cli.log : l.code # "Unavailable"

\* a mirror call is applied while no mirror call of an earlier operation on
\* the same path is still to come
MirrorInOrder ==
    \A s \in cli.sent' \ cli.sent : \A g \in cli.mirrors :
        g.req.Path = s.req.Path => g.id >= s.id

\* C34: the mirror calls of one path reach the server in the order of the
\* local operations (the Create of a file before the Write to it, Writes in
\* the order written), so that once every mirror call has been answered by
\* the server, a file the client created holds the same bytes on both sides
C34_MirrorOrder ==
    /\ [][MirrorInOrder]_vars
    /\ [](MirrorsDelivered =>
            \A i \in 1..Len(cli.ops) :
               (/\ cli.ops[i].op = "Create"
                /\ cli.ops[i].result = OK
                /\ cli.ops[i].arg.path \notin DOMAIN cli.ops[i].pre
                /\ cli.ops[i].arg.path \in DOMAIN cliFs)
               => /\ ServerCopy(cli.ops[i].arg.path) \in DOMAIN srvFs
                  /\ srvFs[ServerCopy(cli.ops[i].arg.path)].data
                        = cliFs[cli.ops[i].arg.path].data)

(***************************************************************************)
(* C35: the event of a client's own mutation comes back on its stream      *)
(***************************************************************************)

\* the notifyObservers goroutine the server's loopback spawns when a handler's
\* system call on the mountpoint succeeded: Node.Rename publishes the rename,
\* Node.Create the new file
MountNotify(g, req, before, code) ==
    IF code # "OK" THEN {}
    ELSE IF g.method = Methods.Rename
    THEN { [id |-> g.id, event |-> "RENAME_FILE",
            path |-> ServerCopy(cliRealpath \o req.Path),
            newpath |-> relativePath(ServerCopy(cliRealpath \o req.NewPath)),
            mode |-> FileMode(FALSE, 0)] }
    ELSE IF g.method = Methods.Create
            /\ ServerCopy(cliRealpath \o req.Path) \notin DOMAIN before
    THEN { [id |-> g.id, event |-> "ADD_FILE",
            path |-> ServerCopy(cliRealpath \o req.Path),
            newpath |-> <<>>, mode |-> FileMode(FALSE, req.Mode)] }
    ELSE {}

\* the RPC of a mirror goroutine reaches the server and is answered; what the
\* handler did on the mountpoint went through the server's mount
MountMirrorCall(g) ==
    /\ g \in cli.mirrors
    /\ \E req \in MirrorRequests(g) :
       \E ctx \in {AuthInterceptor(FullMethod(g.method),
                                   NewAuthenticatedCtx(ClientUser))} :
       \E r \in {IF ctx.pass THEN Handler(g.method, srvFs, userDb, ctx, req)
                 ELSE Result(srvFs, userDb, "Unauthenticated", {}, EmptyToken)} :
            /\ srvFs' = r.fs
            /\ notifying' = notifying \cup MountNotify(g, req, srvFs, r.code)
            /\ cli' = [MirrorDone(cli, g, r.code) EXCEPT
                          !.sent = @ \cup {[id |-> g.id, method |-> g.method,
                                            req |-> req]}]
    /\ UNCHANGED <<lastOp, evHeap, broadcast, observers, chans, streams,
                   mainObs, delivering, srvCtxDone, due, placed, rpcVars,
                   xferVars, cliFs>>

\* the client is the only one that changes anything: it renames and creates
\* entries of its root, and its observer is connected
NextEcho ==
    \/ CliRename
    \/ CliCreate
    \/ \E g \in cli.mirrors : MountMirrorCall(g)
    \/ \E g \in notifying : notifyObservers(g)
    \/ MainObserverRecv
    \/ MainObserverFanout
    \/ \E d \in delivering : Deliver(d)
    \/ ObserveRecv(ObsStream)
    \/ ObserveSend(ObsStream)
    \/ RemoteObserverRecv
    \/ \E g \in cli.obs.handling : HandleFileEvent(g)

SpecEcho == InitScenario /\ [][NextEcho]_vars

\* C35: every event the client's observer applies comes from a mutation of
\* this client, and applying it leaves the client's tree as it was
C35_EchoNoChange ==
    \A i \in 1..Len(cli.obs.applied) :
        cli.obs.applied[i].post = cli.obs.applied[i].pre

(***************************************************************************)
(* C36: the path a node stores and the name it is registered under         *)
(***************************************************************************)

\* C36: every registered child stores the path made of its parent's stored
\* path and the name it is registered under, also after a Rename
C36_NodePath ==
    \A k \in cli.kids : k.path = Join(<<k.parent, k.name>>)

(***************************************************************************)
(* C37: deliveries to a subscriber whose stream has ended                  *)
(***************************************************************************)

\* as InitSlow, but the handler of the first subscriber has returned on
\* ctx.Done() with its channel full; the channel is still in the registry
InitLeak ==
    /\ srvFs = InitSrvFs
    /\ lastOp = NoOp
    /\ notifying = {}
    /\ broadcast = <<>>
    /\ observers = (SlowRoot :> <<SlowStream, LiveStream>>)
    /\ \E k \in 0..ClientChanCap :
          /\ evHeap = SlowHistory(k)
          /\ chans = [c \in StreamIds |->
                        IF c = SlowStream THEN [e \in 1..ClientChanCap |-> e]
                        ELSE IF c = LiveStream
                        THEN [i \in 1..(ClientChanCap - k) |-> k + i]
                        ELSE <<>>]
          /\ streams = [c \in StreamIds |->
                          IF c = SlowStream
                          THEN [IdleStream EXCEPT !.pc = "returned", !.root = SlowRoot,
                                                  !.ctxDone = TRUE, !.status = "OK"]
                          ELSE IF c = LiveStream
                          THEN [IdleStream EXCEPT
                                  !.pc = "loop", !.root = SlowRoot,
                                  !.sent = [e \in 1..k |->
                                              [id |-> e,
                                               Event |-> SlowHistory(k)[e].Event,
                                               Path |-> SlowHistory(k)[e].Path,
                                               NewPath |-> SlowHistory(k)[e].NewPath,
                                               Mode |-> SlowHistory(k)[e].Mode]]]
                          ELSE IdleStream]
    /\ mainObs = [pc |-> "recv", ev |-> 0, clients |-> <<>>]
    /\ delivering = {}
    /\ srvCtxDone = FALSE
    /\ due = (1..ClientChanCap) \X {SlowStream, LiveStream}
    /\ placed = (1..ClientChanCap) \X {SlowStream, LiveStream}
    /\ rpc = NoCall
    /\ userDb = Users
    /\ xfer = IdleXfer
    /\ cliFs = InitCliFs
    /\ cli = IdleCli

\* every goroutine that can run does run, the delivery goroutines included
FairnessLeak ==
    /\ WF_vars(MainObserverRecv)
    /\ WF_vars(MainObserverFanout)
    /\ \A e \in SlowEvIds, c \in StreamIds : WF_vars(Deliver([ev |-> e, client |-> c]))
    /\ WF_vars(ObserveRecv(LiveStream))
    /\ WF_vars(ObserveSend(LiveStream))

SpecLeak == InitLeak /\ [][NextSlow]_vars /\ FairnessLeak

\* C37: every delivery goroutine the dispatcher spawns completes its send,
\* also when the subscriber's stream has ended
C37_DeliveriesComplete ==
    \A e \in SlowEvIds, c \in StreamIds :
        ([ev |-> e, client |-> c] \in delivering)
            ~> ([ev |-> e, client |-> c] \notin delivering)

(***************************************************************************)
(* C38: the paths of an event as each subscriber's stream sends them       *)
(***************************************************************************)

\* C38: an event sent on a subscriber's stream carries the published Path
\* and NewPath with that subscriber's root removed once, whatever the
\* handlers of other subscribers do with the same event
C38_TrimmedOnce ==
    \A c \in StreamIds : \A i \in 1..Len(streams[c].sent) :
        LET s == streams[c].sent[i]
        IN  /\ s.Path = TrimPrefix(evHeap[s.id].pubPath, streams[c].root)
            /\ s.NewPath = TrimPrefix(evHeap[s.id].pubNewPath, streams[c].root)

(***************************************************************************)
(* Release of a file handle                                                *)
(***************************************************************************)

\* what an operation of the handle returns once its system call is made:
\* Release ignores the result of syscall.Close and Read hands the descriptor
\* to the mount layer, both return fs.OK; the others return the call's errno
HandleReturn(th) ==
    IF th.op \in {"Release", "Read"} THEN OK ELSE th.errno

\* a step in which goroutine t makes a system call on fh.fd
HandleSysStep(t) ==
    /\ cli.fh.thr[t].pc = "sys"
    /\ cli'.fh.thr[t] # cli.fh.thr[t]

\* Release calls Close only on the number the handle was opened with, while
\* the kernel still has it open, and returns OK with fh.fd = -1
ReleaseClosesOnce ==
    \A t \in HandleThreads :
        LET th == cli.fh.thr[t]
        IN  /\ (th.pc = "sys" /\ th.sys = "Close") =>
                  (cli.fh.open /\ cli.fh.fd = HandleFd /\ cli.fh.mu = t)
            /\ (th.op = "Release" /\ th.pc = "unlock") =>
                  (cli.fh.fd = -1 /\ ~cli.fh.open /\ HandleReturn(th) = OK)

\* once fh.fd is -1 it stays -1, nothing is closed any more and every system
\* call an operation makes on the handle is made on -1 and fails with EBADF
ReleasedStays ==
    cli.fh.fd = -1 =>
        /\ cli'.fh.fd = -1
        /\ \A t \in HandleThreads :
              HandleSysStep(t) =>
                  /\ cli.fh.thr[t].sys # "Close"
                  /\ cli'.fh.thr[t].errno = EBADF

\* C39: Release closes the descriptor at most once: the first Release leaves
\* -1 in the descriptor field, a second Release closes nothing, Release
\* returns OK, and an operation called after Release acts on -1, never on the
\* number Release closed
C39_ReleaseOnce == [][ReleasedStays]_vars /\ []ReleaseClosesOnce

\* a second Release has found -1 and is returning without a Close, and a
\* Write made after the first Release has failed with EBADF
C39_Witness ==
    /\ cli.fh.fd = -1
    /\ \E t \in HandleThreads : \E u \in HandleThreads \ {t} :
          /\ cli.fh.thr[t].op = "Release" /\ cli.fh.thr[t].pc = "unlock"
          /\ cli.fh.thr[t].errno = "none"
          /\ cli.fh.thr[u].op = "Write" /\ cli.fh.thr[u].errno = EBADF

(***************************************************************************)
(* Link                                                                    *)
(***************************************************************************)

\* the nodes Link can be handed as its target: the files of the node
\* directories
LinkTargets ==
    { q \in DOMAIN srvFs : Dir(q) \in NodeDirs /\ srvFs[q].kind = "file" }

\* a step in which Link has returned
LinkReturns == lastOp'.seq # lastOp.seq /\ lastOp'.op = "Link"

\* C40: Link(target, name) on a parent node makes <parent path>/name a hard
\* link to the target node's backing path, with the result link(2) gives for
\* these two paths; when it fails the store is as it was before
C40_LinkCreates ==
    [][LinkReturns =>
          \E target \in LinkTargets :
              LET r == SysLink(srvFs, target, lastOp'.path)
              IN  /\ lastOp'.err = r.err
                  /\ srvFs' = r.fs
                  /\ (lastOp'.err # OK => srvFs' = srvFs)]_vars

====
